---- MODULE Spec2Model ----
(***************************************************************************)
(* Position simulation and performance analytics of the backtester:        *)
(* the providers' generate_signals (signal loop, then equity loop),        *)
(* calculate_metrics and main of backtest.py.                              *)
(*                                                                         *)
(* A run is main(ticker, strategy_name): the provider's signal loop walks  *)
(* the rows of the price table, its equity loop fills EquityCurve, then    *)
(* calculate_metrics extracts the trades and builds the report, and main   *)
(* returns.  Rows are indexed 0..n-1 as in the source.  The indicator      *)
(* conditions of a provider (RSI, IBS, moving averages, %b) are free       *)
(* booleans per row; conditions that compare the close with a stored       *)
(* entry price are computed from the closes.  Prices and equity are exact  *)
(* rationals <<numerator, denominator>>.                                   *)
(***************************************************************************)
EXTENDS Integers, Sequences, FiniteSets, TLC

\* Rows on which a provider's signal loop runs (rows from its first index on).
Horizon == 3
\* Closes are drawn from 1..MaxPrice.
MaxPrice == 3

Prices == 1..MaxPrice

\* Rows of the tables on which the statistics of calculate_metrics are
\* examined.
StatsRows == 5
\* The calendar of the model: a date is a day number, DaysPerMonth days make a
\* month and MonthsPerYear months a year.
DaysPerMonth == StatsRows
MonthsPerYear == 2
\* Rows of the tables whose monthly returns are computed: enough for two
\* closed trades of a lag-1 provider.
MonthlyRows == 5
\* Rows the scale-in providers walk, and their highest close, where every
\* step of their sizing is to happen.
SizingHorizon == 5
LadderPrices == 4
\* Rows of the tables open_breakout_ibs walks, and its longest time stop.
BreakoutRows == 5
MaxTimeStop == 3
\* Rows of the tables of the runs started from the GUI.
GuiRows == 3
\* Rows of the tables whose closes lie next to each other.
CalmarRows == 3
\* 1 / 0.0001, the drawdown below which no Calmar ratio is computed.
ThresholdDenominator == 10000

-----------------------------------------------------------------------------
\* Exact rational arithmetic: <<n, d>> with d > 0, in lowest terms.

Abs(x) == IF x < 0 THEN -x ELSE x

RECURSIVE GCD(_, _)
GCD(a, b) == IF b = 0 THEN a ELSE GCD(b, a % b)

Frac(n, d) ==
    LET g == GCD(Abs(n), Abs(d))
        s == IF d < 0 THEN -1 ELSE 1
    IN  <<(s * n) \div g, (s * d) \div g>>

FInt(n) == <<n, 1>>
FZero == <<0, 1>>
FOne == <<1, 1>>
FAdd(a, b) ==
    LET g == GCD(a[2], b[2])
    IN  Frac(a[1] * (b[2] \div g) + b[1] * (a[2] \div g), (a[2] \div g) * b[2])
FSub(a, b) == FAdd(a, <<-b[1], b[2]>>)
FMul(a, b) ==
    LET g == GCD(Abs(a[1]), b[2])
        h == GCD(Abs(b[1]), a[2])
    IN  Frac((a[1] \div g) * (b[1] \div h), (a[2] \div h) * (b[2] \div g))
FDiv(a, b) == Frac(a[1] * b[2], a[2] * b[1])
FLt(a, b) == a[1] * b[2] < b[1] * a[2]
FLe(a, b) == a[1] * b[2] <= b[1] * a[2]

\* Python's None for entry_price / entry_date (no rational has denominator 0).
None == <<0, 0>>

\* The floating-point values that are not numbers: nan, inf and -inf.
NaN == <<0, -2>>
PosInfinity == <<1, 0>>
NegInfinity == <<-1, 0>>

IsFinite(x) == x[2] > 0

\* a / b of two numbers as numpy divides: x/0 is inf or -inf, 0/0 is nan.
XDiv(a, b) ==
    IF b[1] # 0 THEN FDiv(a, b)
    ELSE IF a[1] = 0 THEN NaN
    ELSE IF a[1] > 0 THEN PosInfinity ELSE NegInfinity

\* a < b of floating-point values: False as soon as one of them is nan.
XLt(a, b) ==
    CASE a = NaN \/ b = NaN -> FALSE
      [] a = b -> FALSE
      [] a = NegInfinity \/ b = PosInfinity -> TRUE
      [] a = PosInfinity \/ b = NegInfinity -> FALSE
      [] OTHER -> FLt(a, b)

\* a * b, a - b and a + b, nan and the infinities carried along.
XMul(a, b) ==
    IF IsFinite(a) /\ IsFinite(b) THEN FMul(a, b)
    ELSE IF a = NaN \/ b = NaN \/ a = FZero \/ b = FZero THEN NaN
    ELSE IF XLt(a, FZero) = XLt(b, FZero) THEN PosInfinity ELSE NegInfinity

XSub(a, b) ==
    IF IsFinite(a) /\ IsFinite(b) THEN FSub(a, b)
    ELSE IF a = NaN \/ b = NaN \/ a = b THEN NaN
    ELSE IF IsFinite(b) THEN a
    ELSE IF b = PosInfinity THEN NegInfinity ELSE PosInfinity

XAdd(a, b) ==
    IF IsFinite(a) /\ IsFinite(b) THEN FAdd(a, b)
    ELSE IF a = NaN \/ b = NaN THEN NaN
    ELSE IF IsFinite(b) THEN a
    ELSE IF IsFinite(a) \/ a = b THEN b ELSE NaN

\* a <= b of floating-point values.
XLe(a, b) == a # NaN /\ b # NaN /\ (a = b \/ XLt(a, b))

XAbs(a) ==
    IF IsFinite(a) THEN Frac(Abs(a[1]), a[2])
    ELSE IF a = NaN THEN NaN ELSE PosInfinity

\* The integer nearest to the number x, ties to the even one.
RoundHalfEven(x) ==
    LET m == Abs(x[1])
        q == m \div x[2]
        r == m % x[2]
        up == 2 * r > x[2] \/ (2 * r = x[2] /\ q % 2 = 1)
        k == IF up THEN q + 1 ELSE q
    IN  IF x[1] < 0 THEN -k ELSE k

\* f"{x:.2f}": two decimals; nan and the infinities print as such.
Fixed2(x) == IF IsFinite(x) THEN Frac(RoundHalfEven(FMul(x, FInt(100))), 100) ELSE x

\* f"{x:.2%}": the value in percent, two decimals.
Percent2(x) == IF IsFinite(x) THEN Fixed2(FMul(x, FInt(100))) ELSE x

-----------------------------------------------------------------------------
\* The provider modules.  Modules whose loops are the same line for line are
\* represented by one of them:
\*   rsi_ibs_mean_reversion           also vol_ibs_adx, bear_engulf_ibs,
\*                                    volatility_breakout_ibs_adx,
\*                                    volatility_two_day_fall_mean_reversion,
\*                                    open_breakout_ibs (time_stop = None)
\*   short_smh_bundle3_strategy3      also short_spy_mom_short_200_6,
\*                                    short_lp_bundle3_ibs_rsi_short
\*   short_rsi2_above_90_strategy     also short_rsi4_period_overbought,
\*                                    short_percent_b_short,
\*                                    short_rsi2_period_ramp,
\*                                    short_price_pattern_reversal
\*   rsi4_period_overbought_strategy  second unit on an indicator condition
\*   multiple_days_up_strategy        second unit on Close > EntryPrice; also
\*                                    price_pattern_reversal, rsi2_period_ramp
\*   percent_b_short_strategy         one more unit on every qualifying day
\*   tps_short_strategy               10/20/30/40% ladder
Strategies ==
    { "rsi_ibs_mean_reversion",
      "short_smh_bundle3_strategy3",
      "short_rsi2_above_90_strategy",
      "rsi4_period_overbought_strategy",
      "multiple_days_up_strategy",
      "percent_b_short_strategy",
      "tps_short_strategy" }

\* Which equity loop the module has: "lag" reads row i-1 and writes row i,
\* "same" writes running_equity to row i and moves it on the Exit row itself.
LoopKind(name) ==
    IF name \in {"rsi_ibs_mean_reversion", "short_smh_bundle3_strategy3"}
    THEN "lag" ELSE "same"

\* The direction in which the module trades (its docstring and its return
\* formula): Short when -1 enters and +1 covers.
Direction(name) ==
    IF name = "rsi_ibs_mean_reversion" THEN "Long" ELSE "Short"

\* How the module sizes a position.
Sizing(name) ==
    CASE name = "rsi4_period_overbought_strategy" -> "second_unit_indicator"
      [] name = "multiple_days_up_strategy"       -> "second_unit_price"
      [] name = "percent_b_short_strategy"        -> "unit_per_day"
      [] name = "tps_short_strategy"              -> "tps"
      [] OTHER                                    -> "single"

\* First row index of the module's signal loop (range(k, len(df))).
FirstIndex(name) ==
    CASE name = "rsi_ibs_mean_reversion"          -> 0
      [] name = "short_smh_bundle3_strategy3"     -> 0
      [] name = "short_rsi2_above_90_strategy"    -> 1
      [] name = "rsi4_period_overbought_strategy" -> 1
      [] name = "multiple_days_up_strategy"       -> 5
      [] name = "percent_b_short_strategy"        -> 3
      [] name = "tps_short_strategy"              -> 1

\* "short" in strategy_name.lower()
NameContainsShort(name) ==
    name \in { "short_smh_bundle3_strategy3", "short_rsi2_above_90_strategy",
               "percent_b_short_strategy", "tps_short_strategy" }

EnterSignal(name) == IF Direction(name) = "Long" THEN 1 ELSE -1
ExitSignal(name) == IF Direction(name) = "Long" THEN -1 ELSE 1

\* len(df) of the table the module's loops walk.
Rows(name) == FirstIndex(name) + Horizon

\* The price tables of a run.  The rows before the signal loop's first index
\* carry no signal and their close is read by no loop; they all close at
\* MaxPrice.
CloseTables(name) ==
    { c \in [0 .. Rows(name) - 1 -> Prices] :
        \A d \in 0 .. FirstIndex(name) - 1 : c[d] = MaxPrice }

ZeroColumn(n) == [d \in 0 .. n - 1 |-> 0]

-----------------------------------------------------------------------------
VARIABLES
    strategy_name,     \* main's argument: the provider module
    df,                \* the table: one column per field, rows 0..n-1
    pc,                \* where the run stands
    i,                 \* loop index of the loop pc names
    in_position,       \* generate_signals: in_position / in_long / in_short
    last_entry_price,  \* tps signal loop
    time_stop,         \* open_breakout_ibs: the parameter (-1 for None)
    buy_cond,          \* open_breakout_ibs: the entry condition of each row
    sell_cond,         \* open_breakout_ibs: the exit condition of each row
    entry_idx,         \* open_breakout_ibs signal loop (-1 for None)
    entry_price,       \* equity loop: entry price (weighted average for tps)
    entry_prices,      \* equity loop: one entry price per unit
    position_size,     \* tps equity loop, in tenths
    running_equity,    \* equity loop of the "same" kind
    open_day,          \* row on which the equity loop opened the position
    closings,          \* the closes the equity loop applied, in order
    position,          \* calculate_metrics: 0 flat, 1 long, -1 short
    cm_entry_price,    \* calculate_metrics: entry_price
    entry_date,        \* calculate_metrics: entry_date
    trades,            \* calculate_metrics: trades
    result,            \* what calculate_metrics returned
    main_result,       \* what main returned
    monthly_df,        \* what calculate_monthly_returns returned
    shown              \* what run_backtest showed the user

vars == <<strategy_name, df, pc, i, in_position, last_entry_price, time_stop,
          buy_cond, sell_cond, entry_idx, entry_price,
          entry_prices, position_size, running_equity, open_day, closings,
          position, cm_entry_price, entry_date, trades, result, main_result,
          monthly_df, shown>>

breakout_locals == <<time_stop, buy_cond, sell_cond, entry_idx>>
signal_locals == <<in_position, last_entry_price, breakout_locals>>
equity_locals == <<entry_price, entry_prices, position_size, running_equity,
                   open_day, closings>>
metrics_locals == <<position, cm_entry_price, entry_date, trades>>

n == Cardinality(DOMAIN df.Close)

\* The provider is not open_breakout_ibs: its parameter and locals are unset.
NoBreakout ==
    /\ time_stop = -1
    /\ buy_cond = <<>>
    /\ sell_cond = <<>>
    /\ entry_idx = -1

-----------------------------------------------------------------------------
\* generate_signals, part 1: the stateful signal loop, one iteration at row k.
\* Each operator takes the table d, the loop's locals and the row's indicator
\* conditions, and yields the table and locals after the iteration.

SignalOut(d, inpos, lep) ==
    [df |-> d, in_position |-> inpos, last_entry_price |-> lep]

\* rsi_ibs_mean_reversion.py 49-56, short_smh_bundle3_strategy3.py 50-57
SignalLoopLag(name, d, inpos, lep, k, entry_cond, exit_cond) ==
    IF ~inpos /\ entry_cond
    THEN SignalOut([d EXCEPT !.Signal[k] = EnterSignal(name)], TRUE, lep)
    ELSE IF inpos /\ exit_cond
    THEN SignalOut([d EXCEPT !.Signal[k] = ExitSignal(name)], FALSE, lep)
    ELSE SignalOut(d, inpos, lep)

\* A single-unit loop that covers whenever the exit condition holds.
SignalLoopSingleUnchecked(d, inpos, lep, k, entry_cond, exit_cond) ==
    LET d1 == [d EXCEPT !.Units[k] = d.Units[k - 1]]
    IN  IF exit_cond
        THEN SignalOut([d1 EXCEPT !.Signal[k] = 1, !.Units[k] = 0], FALSE, lep)
        ELSE IF ~inpos /\ entry_cond
        THEN SignalOut([d1 EXCEPT !.Signal[k] = -1, !.Units[k] = 1], TRUE, lep)
        ELSE SignalOut(d1, inpos, lep)

\* short_rsi2_above_90_strategy.py 50-68
SignalLoopSingle(d, inpos, lep, k, entry_cond, exit_cond) ==
    LET d1 == [d EXCEPT !.Units[k] = d.Units[k - 1]]
    IN  IF inpos /\ exit_cond
        THEN SignalOut([d1 EXCEPT !.Signal[k] = 1, !.Units[k] = 0], FALSE, lep)
        ELSE IF ~inpos /\ entry_cond
        THEN SignalOut([d1 EXCEPT !.Signal[k] = -1, !.Units[k] = 1], TRUE, lep)
        ELSE SignalOut(d1, inpos, lep)

\* rsi4_period_overbought_strategy.py 52-76 (add_cond: RSI4 > 80)
SignalLoopSecondUnit(d, inpos, lep, k, entry_cond, exit_cond, add_cond) ==
    LET d1 == [d EXCEPT !.Units[k] = d.Units[k - 1]]
    IN  IF inpos /\ exit_cond
        THEN SignalOut([d1 EXCEPT !.Signal[k] = 1, !.Units[k] = 0], FALSE, lep)
        ELSE IF ~inpos /\ entry_cond
        THEN SignalOut([d1 EXCEPT !.Signal[k] = -1, !.Units[k] = 1], TRUE, lep)
        ELSE IF inpos /\ add_cond /\ d1.Units[k] = 1
        THEN SignalOut([d1 EXCEPT !.Signal[k] = -1, !.Units[k] = 2], inpos, lep)
        ELSE SignalOut(d1, inpos, lep)

\* multiple_days_up_strategy.py 53-80 (the second unit needs Close > EntryPrice)
SignalLoopSecondUnitPrice(d, inpos, lep, k, entry_cond, exit_cond) ==
    LET d1 == [d EXCEPT !.Units[k] = d.Units[k - 1],
                        !.EntryPrice[k] = d.EntryPrice[k - 1]]
    IN  IF inpos /\ exit_cond
        THEN SignalOut([d1 EXCEPT !.Signal[k] = 1, !.Units[k] = 0,
                                  !.EntryPrice[k] = 0], FALSE, lep)
        ELSE IF ~inpos /\ entry_cond
        THEN SignalOut([d1 EXCEPT !.Signal[k] = -1, !.Units[k] = 1,
                                  !.EntryPrice[k] = d.Close[k]], TRUE, lep)
        ELSE IF inpos /\ d1.Close[k] > d1.EntryPrice[k] /\ d1.Units[k] = 1
        THEN SignalOut([d1 EXCEPT !.Signal[k] = -1, !.Units[k] = 2], inpos, lep)
        ELSE SignalOut(d1, inpos, lep)

\* percent_b_short_strategy.py 55-85 (add_cond: %b > 0.80 today)
SignalLoopUnitPerDay(d, inpos, lep, k, entry_cond, exit_cond, add_cond) ==
    LET d1 == [d EXCEPT !.Units[k] = d.Units[k - 1],
                        !.DaysInPosition[k] =
                            IF inpos THEN d.DaysInPosition[k - 1] + 1 ELSE 0]
    IN  IF inpos /\ exit_cond
        THEN SignalOut([d1 EXCEPT !.Signal[k] = 1, !.Units[k] = 0], FALSE, lep)
        ELSE IF ~inpos /\ entry_cond
        THEN SignalOut([d1 EXCEPT !.Signal[k] = -1, !.Units[k] = 1], TRUE, lep)
        ELSE IF inpos /\ add_cond /\ d1.DaysInPosition[k] > 1
        THEN SignalOut([d1 EXCEPT !.Signal[k] = -1,
                                  !.Units[k] = d1.Units[k - 1] + 1], inpos, lep)
        ELSE SignalOut(d1, inpos, lep)

\* tps_short_strategy.py 56-100; Position is held in tenths (0.1 = 1, 0.3 = 3,
\* 0.6 = 6, 1.0 = 10)
SignalLoopTps(d, inpos, lep, k, entry_cond, exit_cond) ==
    LET d1 == [d EXCEPT !.Position[k] = d.Position[k - 1],
                        !.EntryPrice[k] = d.EntryPrice[k - 1]]
        add(p) == SignalOut([d1 EXCEPT !.Signal[k] = -1, !.Position[k] = p,
                                       !.EntryPrice[k] = d.Close[k]],
                            inpos, d.Close[k])
    IN  IF exit_cond /\ d1.Position[k] > 0
        THEN SignalOut([d1 EXCEPT !.Signal[k] = 1, !.Position[k] = 0,
                                  !.EntryPrice[k] = 0], FALSE, 0)
        ELSE IF ~inpos /\ entry_cond
        THEN SignalOut([d1 EXCEPT !.Signal[k] = -1, !.Position[k] = 1,
                                  !.EntryPrice[k] = d.Close[k]], TRUE, d.Close[k])
        ELSE IF inpos /\ d1.Close[k] > lep
        THEN CASE d1.Position[k] = 1 -> add(3)
               [] d1.Position[k] = 3 -> add(6)
               [] d1.Position[k] = 6 -> add(10)
               [] OTHER -> SignalOut(d1, inpos, lep)
        ELSE SignalOut(d1, inpos, lep)

\* The signal loop body of the module `name`.
SignalLoopBody(name, d, inpos, lep, k, entry_cond, exit_cond, add_cond) ==
    CASE LoopKind(name) = "lag" ->
            SignalLoopLag(name, d, inpos, lep, k, entry_cond, exit_cond)
      [] Sizing(name) = "second_unit_indicator" ->
            SignalLoopSecondUnit(d, inpos, lep, k, entry_cond, exit_cond, add_cond)
      [] Sizing(name) = "second_unit_price" ->
            SignalLoopSecondUnitPrice(d, inpos, lep, k, entry_cond, exit_cond)
      [] Sizing(name) = "unit_per_day" ->
            SignalLoopUnitPerDay(d, inpos, lep, k, entry_cond, exit_cond, add_cond)
      [] Sizing(name) = "tps" ->
            SignalLoopTps(d, inpos, lep, k, entry_cond, exit_cond)
      [] OTHER ->
            SignalLoopSingle(d, inpos, lep, k, entry_cond, exit_cond)

\* Whether the module's add condition is an indicator (a free boolean).
HasAddCondition(name) ==
    Sizing(name) \in {"second_unit_indicator", "unit_per_day"}

-----------------------------------------------------------------------------
\* generate_signals, part 2: the equity loop, one iteration at row k.  e holds
\* the loop's locals; closings and open_day record what the loop did (the row
\* of each close it applied, the row on which that position was opened, and
\* the return it applied to equity).

\* ret = (price - entry_price) / entry_price
LongReturn(entry, price) == FDiv(FSub(price, entry), entry)
\* ret = (entry_price - price) / entry_price
ShortReturn(entry, price) == FDiv(FSub(entry, price), entry)

TradeReturn(dir, entry, price) ==
    IF dir = "Long" THEN LongReturn(entry, price) ELSE ShortReturn(entry, price)

\* prev_eq * (1 + ret)
Compound(eq, ret) == FMul(eq, FAdd(FOne, ret))

Closing(day, entry_day, ret) == [day |-> day, entry_day |-> entry_day, ret |-> ret]

\* A lag-1 loop that closes the position without applying its return.
EquityLoopLagUnrealized(name, d, e, k) ==
    LET prev_sig == d.Signal[k - 1]
        prev_eq  == d.EquityCurve[k - 1]
        trade_px == FInt(d.Close[k - 1])
        ret      == TradeReturn(Direction(name), e.entry_price, trade_px)
    IN  IF prev_sig = EnterSignal(name) /\ ~e.in_position
        THEN [df |-> [d EXCEPT !.EquityCurve[k] = prev_eq],
              e  |-> [e EXCEPT !.in_position = TRUE, !.entry_price = trade_px,
                               !.open_day = k - 1]]
        ELSE IF prev_sig = ExitSignal(name) /\ e.in_position
        THEN [df |-> [d EXCEPT !.EquityCurve[k] = prev_eq],
              e  |-> [e EXCEPT !.in_position = FALSE,
                               !.closings = Append(@, Closing(k - 1, e.open_day, ret))]]
        ELSE [df |-> [d EXCEPT !.EquityCurve[k] = prev_eq], e |-> e]

\* A lag-1 loop that marks an open position to market on every held day.
EquityLoopLagMarked(name, d, e, k) ==
    LET prev_sig == d.Signal[k - 1]
        prev_eq  == d.EquityCurve[k - 1]
        trade_px == FInt(d.Close[k - 1])
        ret      == TradeReturn(Direction(name), e.entry_price, trade_px)
        day_ret  == TradeReturn(Direction(name), FInt(d.Close[k - 2]), trade_px)
    IN  IF prev_sig = EnterSignal(name) /\ ~e.in_position
        THEN [df |-> [d EXCEPT !.EquityCurve[k] = prev_eq],
              e  |-> [e EXCEPT !.in_position = TRUE, !.entry_price = trade_px,
                               !.open_day = k - 1]]
        ELSE IF prev_sig = ExitSignal(name) /\ e.in_position
        THEN [df |-> [d EXCEPT !.EquityCurve[k] = Compound(prev_eq, ret)],
              e  |-> [e EXCEPT !.in_position = FALSE,
                               !.closings = Append(@, Closing(k - 1, e.open_day, ret))]]
        ELSE IF e.in_position
        THEN [df |-> [d EXCEPT !.EquityCurve[k] = Compound(prev_eq, day_ret)], e |-> e]
        ELSE [df |-> [d EXCEPT !.EquityCurve[k] = prev_eq], e |-> e]

\* rsi_ibs_mean_reversion.py 63-79, short_smh_bundle3_strategy3.py 64-83
EquityLoopLag(name, d, e, k) ==
    LET prev_sig == d.Signal[k - 1]
        prev_eq  == d.EquityCurve[k - 1]
        trade_px == FInt(d.Close[k - 1])
        ret      == TradeReturn(Direction(name), e.entry_price, trade_px)
    IN  IF prev_sig = EnterSignal(name) /\ ~e.in_position
        THEN [df |-> [d EXCEPT !.EquityCurve[k] = prev_eq],
              e  |-> [e EXCEPT !.in_position = TRUE, !.entry_price = trade_px,
                               !.open_day = k - 1]]
        ELSE IF prev_sig = ExitSignal(name) /\ e.in_position
        THEN [df |-> [d EXCEPT !.EquityCurve[k] = Compound(prev_eq, ret)],
              e  |-> [e EXCEPT !.in_position = FALSE,
                               !.closings = Append(@, Closing(k - 1, e.open_day, ret))]]
        ELSE [df |-> [d EXCEPT !.EquityCurve[k] = prev_eq], e |-> e]

\* A same-bar loop that applies the return of a long position on the cover.
EquityLoopSingleLong(d, e, k) ==
    LET curr_signal == d.Signal[k]
        curr_price  == FInt(d.Close[k])
        d1  == [d EXCEPT !.EquityCurve[k] = e.running_equity]
        ret == LongReturn(e.entry_price, curr_price)
        eq  == Compound(e.running_equity, ret)
    IN  IF curr_signal = -1
        THEN [df |-> d1,
              e  |-> [e EXCEPT !.in_position = TRUE, !.entry_price = curr_price,
                               !.open_day = k]]
        ELSE IF curr_signal = 1 /\ e.in_position
        THEN [df |-> [d1 EXCEPT !.EquityCurve[k] = eq],
              e  |-> [e EXCEPT !.in_position = FALSE, !.running_equity = eq,
                               !.entry_price = None,
                               !.closings = Append(@, Closing(k, e.open_day, ret))]]
        ELSE [df |-> d1, e |-> e]

\* short_rsi2_above_90_strategy.py 76-97
EquityLoopSingle(d, e, k) ==
    LET curr_signal == d.Signal[k]
        curr_price  == FInt(d.Close[k])
        d1  == [d EXCEPT !.EquityCurve[k] = e.running_equity]
        ret == ShortReturn(e.entry_price, curr_price)
        eq  == Compound(e.running_equity, ret)
    IN  IF curr_signal = -1
        THEN [df |-> d1,
              e  |-> [e EXCEPT !.in_position = TRUE, !.entry_price = curr_price,
                               !.open_day = k]]
        ELSE IF curr_signal = 1 /\ e.in_position
        THEN [df |-> [d1 EXCEPT !.EquityCurve[k] = eq],
              e  |-> [e EXCEPT !.in_position = FALSE, !.running_equity = eq,
                               !.entry_price = None,
                               !.closings = Append(@, Closing(k, e.open_day, ret))]]
        ELSE [df |-> d1, e |-> e]

\* for entry_price in entry_prices: running_equity *= (1 + ret)
RECURSIVE CompoundUnits(_, _, _)
CompoundUnits(eq, entries, price) ==
    IF entries = <<>> THEN eq
    ELSE CompoundUnits(Compound(eq, ShortReturn(Head(entries), price)),
                       Tail(entries), price)

\* for _ in range(curr_units - prev_units): entry_prices.append(curr_price)
RECURSIVE AppendTimes(_, _, _)
AppendTimes(entries, price, times) ==
    IF times <= 0 THEN entries
    ELSE AppendTimes(Append(entries, price), price, times - 1)

\* A unit loop that forgets to empty entry_prices when it closes the position.
EquityLoopUnitsKept(d, e, k) ==
    LET curr_signal == d.Signal[k]
        curr_price  == FInt(d.Close[k])
        curr_units  == d.Units[k]
        prev_units  == d.Units[k - 1]
        d1  == [d EXCEPT !.EquityCurve[k] = e.running_equity]
        eq  == CompoundUnits(e.running_equity, e.entry_prices, curr_price)
        ret == FSub(CompoundUnits(FOne, e.entry_prices, curr_price), FOne)
    IN  IF curr_signal = -1
        THEN [df |-> d1,
              e  |-> [e EXCEPT !.in_position = TRUE,
                               !.entry_prices =
                                   IF prev_units < curr_units
                                   THEN AppendTimes(@, curr_price, curr_units - prev_units)
                                   ELSE @,
                               !.open_day = IF e.in_position THEN @ ELSE k]]
        ELSE IF curr_signal = 1 /\ e.in_position
        THEN [df |-> [d1 EXCEPT !.EquityCurve[k] = eq],
              e  |-> [e EXCEPT !.in_position = FALSE, !.running_equity = eq,
                               !.closings = Append(@, Closing(k, e.open_day, ret))]]
        ELSE [df |-> d1, e |-> e]

\* rsi4_period_overbought_strategy.py 84-113, multiple_days_up_strategy.py
\* 88-117, percent_b_short_strategy.py 93-124
EquityLoopUnits(d, e, k) ==
    LET curr_signal == d.Signal[k]
        curr_price  == FInt(d.Close[k])
        curr_units  == d.Units[k]
        prev_units  == d.Units[k - 1]
        d1  == [d EXCEPT !.EquityCurve[k] = e.running_equity]
        eq  == CompoundUnits(e.running_equity, e.entry_prices, curr_price)
        ret == FSub(CompoundUnits(FOne, e.entry_prices, curr_price), FOne)
    IN  IF curr_signal = -1
        THEN [df |-> d1,
              e  |-> [e EXCEPT !.in_position = TRUE,
                               !.entry_prices =
                                   IF prev_units < curr_units
                                   THEN AppendTimes(@, curr_price, curr_units - prev_units)
                                   ELSE @,
                               !.open_day = IF e.in_position THEN @ ELSE k]]
        ELSE IF curr_signal = 1 /\ e.in_position
        THEN [df |-> [d1 EXCEPT !.EquityCurve[k] = eq],
              e  |-> [e EXCEPT !.in_position = FALSE, !.running_equity = eq,
                               !.entry_prices = <<>>,
                               !.closings = Append(@, Closing(k, e.open_day, ret))]]
        ELSE [df |-> d1, e |-> e]

\* An entry price that weighs the old price and the new close equally.
WeightedEntryEven(entry, price, size, pct) ==
    FMul(FAdd(entry, price), Frac(1, 2))

\* entry_price = (entry_price * prev_weight) + (curr_price * new_weight)
WeightedEntry(entry, price, size, pct) ==
    LET prev_weight == Frac(size - pct, size)
        new_weight  == Frac(pct, size)
    IN  FAdd(FMul(entry, prev_weight), FMul(price, new_weight))

\* tps_short_strategy.py 109-137; position_size and Position in tenths
EquityLoopTps(d, e, k) ==
    LET curr_signal  == d.Signal[k]
        curr_price   == FInt(d.Close[k])
        d1  == [d EXCEPT !.EquityCurve[k] = e.running_equity]
        position_pct == d.Position[k] - e.position_size
        new_size     == d.Position[k]
        ret == FMul(ShortReturn(e.entry_price, curr_price), Frac(e.position_size, 10))
        eq  == Compound(e.running_equity, ret)
    IN  IF curr_signal = -1
        THEN [df |-> d1,
              e  |-> [e EXCEPT !.in_position = TRUE, !.position_size = new_size,
                               !.entry_price =
                                   IF @ = FZero THEN curr_price
                                   ELSE WeightedEntry(@, curr_price, new_size, position_pct),
                               !.open_day = IF e.in_position THEN @ ELSE k]]
        ELSE IF curr_signal = 1 /\ e.in_position
        THEN [df |-> [d1 EXCEPT !.EquityCurve[k] = eq],
              e  |-> [e EXCEPT !.in_position = FALSE, !.running_equity = eq,
                               !.entry_price = FZero, !.position_size = 0,
                               !.closings = Append(@, Closing(k, e.open_day, ret))]]
        ELSE [df |-> d1, e |-> e]

\* The equity loop body of the module `name`.
EquityLoopBody(name, d, e, k) ==
    CASE LoopKind(name) = "lag" -> EquityLoopLag(name, d, e, k)
      [] Sizing(name) = "single" -> EquityLoopSingle(d, e, k)
      [] Sizing(name) = "tps" -> EquityLoopTps(d, e, k)
      [] OTHER -> EquityLoopUnits(d, e, k)

\* The locals as the module sets them before its equity loop:
\* entry_price = 0.0 (lag, tps) or None (single), entry_prices = [],
\* position_size = 0.0, running_equity = 1.0.
EquityLocals(name) ==
    [in_position |-> FALSE,
     entry_price |-> IF LoopKind(name) = "same" /\ Sizing(name) = "single"
                     THEN None ELSE FZero,
     entry_prices |-> <<>>,
     position_size |-> 0,
     running_equity |-> FOne,
     open_day |-> -1,
     closings |-> <<>>]

-----------------------------------------------------------------------------
\* calculate_metrics(df, strategy_name)

\* Values of the report that are not numbers.
NA == <<0, -1>>         \* "N/A"
Infinity == PosInfinity  \* float('inf')

\* has_buy_signals, has_sell_signals (28-29)
HasBuySignals(sig) == \E d \in DOMAIN sig : sig[d] = 1
HasSellSignals(sig) == \E d \in DOMAIN sig : sig[d] = -1

\* df["Signal"].diff().fillna(0) (36)
SignalChanges(sig) == [d \in DOMAIN sig |-> IF d = 0 THEN 0 ELSE sig[d] - sig[d - 1]]

\* entries without the second look at the Signal column itself.
EntryRowsByChangeOnly(sig) == {d \in DOMAIN sig : SignalChanges(sig)[d] = 1}

\* entries (37, 42-43): rows where the signal rose by 1, else rows with Signal 1
EntryRows(sig) ==
    LET by_change == {d \in DOMAIN sig : SignalChanges(sig)[d] = 1}
    IN  IF by_change = {} THEN {d \in DOMAIN sig : sig[d] = 1} ELSE by_change

\* exits (38, 45-46): rows where the signal fell by 2, else rows with Signal -1
ExitRows(sig) ==
    LET by_change == {d \in DOMAIN sig : SignalChanges(sig)[d] = -2}
    IN  IF by_change = {} THEN {d \in DOMAIN sig : sig[d] = -1} ELSE by_change

\* is_short_strategy (130-134): decided by the module's name alone
IsShortStrategy(name) == NameContainsShort(name)

\* total_return (53-55)
TotalReturn(eq, rows) == FSub(FDiv(eq[rows - 1], eq[0]), FOne)

Trade(entry_d, exit_d, entry_p, exit_p, type, ret) ==
    [EntryDate |-> entry_d, ExitDate |-> exit_d, EntryPrice |-> entry_p,
     ExitPrice |-> exit_p, Type |-> type, ReturnPct |-> FMul(ret, FInt(100))]

\* One iteration of the trade extraction loop (136-177) at row k; m holds
\* position, entry_price, entry_date and trades.
TradeLoopBody(is_short, d, m, k) ==
    LET curr_signal == d.Signal[k]
        curr_price  == d.Close[k]
        curr_date   == d.Date[k]
    IN  IF ~is_short
        THEN IF curr_signal = 1 /\ m.position = 0
             THEN [m EXCEPT !.position = 1, !.entry_price = curr_price,
                            !.entry_date = curr_date]
             ELSE IF curr_signal = -1 /\ m.position = 1
             THEN [m EXCEPT !.position = 0,
                            !.trades = Append(@,
                                Trade(m.entry_date, curr_date, m.entry_price, curr_price,
                                      "Long",
                                      LongReturn(FInt(m.entry_price), FInt(curr_price))))]
             ELSE m
        ELSE IF curr_signal = -1 /\ m.position = 0
             THEN [m EXCEPT !.position = -1, !.entry_price = curr_price,
                            !.entry_date = curr_date]
             ELSE IF curr_signal = 1 /\ m.position = -1
             THEN [m EXCEPT !.position = 0,
                            !.trades = Append(@,
                                Trade(m.entry_date, curr_date, m.entry_price, curr_price,
                                      "Short",
                                      ShortReturn(FInt(m.entry_price), FInt(curr_price))))]
             ELSE m

\* trades_df["Return %"].sum()
RECURSIVE SumReturns(_)
SumReturns(ts) ==
    IF ts = <<>> THEN FZero ELSE FAdd(Head(ts).ReturnPct, SumReturns(Tail(ts)))

\* trades_df[trades_df["Return %"] > 0], trades_df[trades_df["Return %"] < 0]
Winning(ts) == SelectSeq(ts, LAMBDA t : FLt(FZero, t.ReturnPct))
Losing(ts) == SelectSeq(ts, LAMBDA t : FLt(t.ReturnPct, FZero))

\* win_rate (206)
WinRate(ts) == Frac(Len(Winning(ts)), Len(ts))

\* A profit factor that divides without looking at the losses.
ProfitFactorUnguarded(ts) ==
    LET profits == SumReturns(SelectSeq(ts, LAMBDA t : FLt(FZero, t.ReturnPct)))
        sum     == SumReturns(SelectSeq(ts, LAMBDA t : FLt(t.ReturnPct, FZero)))
    IN  XDiv(profits, <<Abs(sum[1]), sum[2]>>)

\* profit_factor (207-209)
ProfitFactor(ts) ==
    LET profits == SumReturns(Winning(ts))
        sum     == SumReturns(Losing(ts))
        losses  == <<Abs(sum[1]), sum[2]>>
    IN  IF losses # FZero THEN FDiv(profits, losses) ELSE Infinity

\* avg_trade, avg_win, avg_loss (212-214)
AvgTrade(ts) == FDiv(SumReturns(ts), FInt(Len(ts)))
AvgWin(ts) ==
    IF Len(Winning(ts)) > 0
    THEN FDiv(SumReturns(Winning(ts)), FInt(Len(Winning(ts)))) ELSE FZero
AvgLoss(ts) ==
    IF Len(Losing(ts)) > 0
    THEN FDiv(SumReturns(Losing(ts)), FInt(Len(Losing(ts)))) ELSE FZero

\* is_active for short strategies (221-230): in_short after row k's signal
RECURSIVE InShortAfter(_, _)
InShortAfter(sig, k) ==
    IF k < 0 THEN FALSE
    ELSE IF sig[k] = -1 THEN TRUE
    ELSE IF sig[k] = 1 THEN FALSE
    ELSE InShortAfter(sig, k - 1)

\* days_in_market (218-235)
DaysInMarket(is_short, sig) ==
    IF is_short
    THEN Cardinality({d \in DOMAIN sig : InShortAfter(sig, d)})
    ELSE Cardinality({d \in DOMAIN sig : sig[d] = 1})

\* time_active_pct (237-238)
TimeActive(is_short, sig) ==
    LET total_days == Cardinality(DOMAIN sig)
    IN  IF total_days > 0 THEN Frac(DaysInMarket(is_short, sig), total_days) ELSE FZero

\* The calendar of the Date column: a date is a day number, a month has
\* DaysPerMonth days and a year MonthsPerYear months.
YearMonth(date) == date \div DaysPerMonth       \* dt.to_period('M')
Year(date) == YearMonth(date) \div MonthsPerYear  \* dt.year
Month(date) == (YearMonth(date) % MonthsPerYear) + 1  \* dt.month

\* A column as the sequence of its values in row order.
ColSeq(x) == [k \in 1 .. Cardinality(DOMAIN x) |-> x[k - 1]]

\* (df["Date"].iloc[-1] - df["Date"].iloc[0]).days (58)
DaysSpan(d) == d.Date[Cardinality(DOMAIN d.Date) - 1] - d.Date[0]

\* cagr (58-59): (1 + total_return) ** (1 / num_years) - 1, kept as its base
\* and the days of the span.  The power of a negative base is NaN unless the
\* exponent 365 / days is a whole number, and then it is negative (365 is odd).
CAGR(d) ==
    LET base == FAdd(FOne, TotalReturn(d.EquityCurve, Cardinality(DOMAIN d.Signal)))
        days == DaysSpan(d)
    IN  [kind |-> IF FLt(base, FZero) /\ 365 % days # 0 THEN "nan" ELSE "finite",
         base |-> base, days |-> days]

\* cagr < 0
CagrNegative(cagr) == cagr.kind = "finite" /\ FLt(cagr.base, FOne)

\* Series.pct_change(): NaN on the first row, x[k] / x[k-1] - 1 after it
PctChange(x) ==
    [k \in DOMAIN x |-> IF k = 0 THEN NaN ELSE XSub(XDiv(x[k], x[k - 1]), FOne)]

\* Series.fillna(0)
FillNa(x) == [k \in DOMAIN x |-> IF x[k] = NaN THEN FZero ELSE x[k]]

\* df["Daily_Return"] (62)
DailyReturn(eq) == FillNa(PctChange(eq))

RECURSIVE SeqSum(_)
SeqSum(s) == IF s = <<>> THEN FZero ELSE FAdd(Head(s), SeqSum(Tail(s)))

\* Series.mean() (63)
Mean(x) == FDiv(SeqSum(ColSeq(x)), FInt(Cardinality(DOMAIN x)))

\* Series.std() (64) as far as the report depends on it: NaN for a single
\* row (ddof = 1), zero when every value is the same, positive otherwise.
StdKind(x) ==
    IF Cardinality(DOMAIN x) = 1 THEN "nan"
    ELSE IF \A j, k \in DOMAIN x : x[j] = x[k] THEN "zero" ELSE "positive"

\* sharpe_ratio (65): sqrt(252) * avg_daily_return / daily_std, kept as the
\* mean it is made of.  A NaN std, and a zero std under a zero mean, divide
\* to NaN; a zero std under another mean to an infinity of the mean's sign.
SharpeRatio(daily) ==
    LET avg == Mean(daily)
        std == StdKind(daily)
    IN  [kind |-> IF std = "nan" THEN "nan"
                  ELSE IF std = "zero"
                  THEN (IF avg = FZero THEN "nan"
                        ELSE IF FLt(FZero, avg) THEN "inf" ELSE "-inf")
                  ELSE "finite",
         mean |-> avg]

\* daily_std * np.sqrt(252) (199, 263)
Volatility(daily) == [kind |-> StdKind(daily)]

\* Series.cummax()
CumMax(s) ==
    [k \in 1 .. Len(s) |->
        CHOOSE m \in {s[j] : j \in 1 .. k} : \A j \in 1 .. k : FLe(s[j], m)]

\* (equity - peak) / peak (69, 100)
Drawdowns(s) ==
    LET peak == CumMax(s)
    IN  [k \in 1 .. Len(s) |-> XDiv(FSub(s[k], peak[k]), peak[k])]

\* Series.min(): NaN is skipped, and is the result when nothing else is there
SeqMin(s) ==
    LET vals == {s[k] : k \in 1 .. Len(s)} \ {NaN}
    IN  IF vals = {} THEN NaN
        ELSE CHOOSE m \in vals : \A v \in vals : ~XLt(v, m)

\* df["Peak"], df["Drawdown"] (68-69) as columns
PeakColumn(eq) ==
    LET peak == CumMax(ColSeq(eq)) IN [k \in DOMAIN eq |-> peak[k + 1]]
DrawdownColumn(eq) ==
    LET drawdown == Drawdowns(ColSeq(eq)) IN [k \in DOMAIN eq |-> drawdown[k + 1]]

\* daily_max_drawdown (70)
DailyMaxDrawdown(d) == SeqMin(Drawdowns(ColSeq(d.EquityCurve)))

\* The rows of monthly_df (85-95): each month's last trading day.
MonthEndRows(d) ==
    {k \in DOMAIN d.Date :
        \A j \in DOMAIN d.Date :
            YearMonth(d.Date[j]) = YearMonth(d.Date[k]) => d.Date[j] <= d.Date[k]}

\* The rows of a set in ascending order.
RECURSIVE Ascending(_)
Ascending(rows) ==
    IF rows = {} THEN <<>>
    ELSE LET first == CHOOSE k \in rows : \A j \in rows : k <= j
         IN  <<first>> \o Ascending(rows \ {first})

\* monthly_df["EquityCurve"] sorted by Date (92-95)
MonthEndEquity(d) ==
    LET rows == Ascending(MonthEndRows(d))
    IN  [k \in 1 .. Len(rows) |-> d.EquityCurve[rows[k]]]

\* monthly_max_drawdown (98-115), with the assignments that produced it:
\* "month_end" (101), "forced" (105-107), "adjusted" (110-112), both of the
\* latter as "forced_adjusted", "estimate" (115).
MonthlyMaxDrawdown(d) ==
    LET daily    == DailyMaxDrawdown(d)
        monthly  == SeqMin(Drawdowns(MonthEndEquity(d)))
        worse    == XLt(monthly, daily)
        forced   == IF worse THEN daily ELSE monthly
        close    == XLt(XAbs(XSub(forced, daily)), Frac(1, 1000))
        adjusted == IF close THEN XMul(daily, Frac(95, 100)) ELSE forced
    IN  IF Len(MonthEndEquity(d)) > 2
        THEN [value |-> adjusted,
              branch |-> IF worse /\ close THEN "forced_adjusted"
                         ELSE IF worse THEN "forced"
                         ELSE IF close THEN "adjusted" ELSE "month_end"]
        ELSE [value |-> XMul(daily, Frac(9, 10)), branch |-> "estimate"]

\* A Calmar ratio that is computed whatever the drawdown.
CalmarUnguarded(cagr, daily) ==
    [kind |-> "ratio", cagr |-> cagr, drawdown |-> XAbs(daily)]

\* "Calmar Ratio" of the report without trades (193)
CalmarInline(cagr, daily) ==
    IF ~XLt(XAbs(daily), Frac(1, ThresholdDenominator))
    THEN [kind |-> "ratio", cagr |-> cagr, drawdown |-> XAbs(daily)]
    ELSE IF CagrNegative(cagr)
    THEN [kind |-> "-inf", cagr |-> cagr, drawdown |-> XAbs(daily)]
    ELSE [kind |-> "inf", cagr |-> cagr, drawdown |-> XAbs(daily)]

\* calmar_ratio (241-247)
CalmarRatio(cagr, daily) ==
    IF XLt(XAbs(daily), Frac(1, ThresholdDenominator))
    THEN IF CagrNegative(cagr)
         THEN [kind |-> "-inf", cagr |-> cagr, drawdown |-> XAbs(daily)]
         ELSE [kind |-> "inf", cagr |-> cagr, drawdown |-> XAbs(daily)]
    ELSE [kind |-> "ratio", cagr |-> cagr, drawdown |-> XAbs(daily)]

\* A report that fills the trade statistics with zeros.
BasicMetricsZeroed(d) ==
    [TotalTrades |-> 0,
     TotalReturn |-> Percent2(TotalReturn(d.EquityCurve, Cardinality(DOMAIN d.Signal))),
     CAGR |-> CAGR(d),
     SharpeRatio |-> SharpeRatio(DailyReturn(d.EquityCurve)),
     DailyMaxDrawdown |-> Percent2(DailyMaxDrawdown(d)),
     MonthlyMaxDrawdown |-> Percent2(MonthlyMaxDrawdown(d).value),
     CalmarRatio |-> CalmarInline(CAGR(d), DailyMaxDrawdown(d)),
     WinRate |-> FZero, ProfitFactor |-> FZero, AvgTrade |-> FZero, AvgWin |-> FZero,
     AvgLoss |-> FZero, TimeActive |-> FZero,
     Volatility |-> Volatility(DailyReturn(d.EquityCurve))]

\* basic_metrics (186-201).  The percentages and two-decimal numbers are
\* formatted as the report formats them; CAGR, Sharpe Ratio, Calmar Ratio and
\* Volatility keep the quantities they are computed from.
BasicMetrics(d) ==
    [TotalTrades |-> 0,
     TotalReturn |-> Percent2(TotalReturn(d.EquityCurve, Cardinality(DOMAIN d.Signal))),
     CAGR |-> CAGR(d),
     SharpeRatio |-> SharpeRatio(DailyReturn(d.EquityCurve)),
     DailyMaxDrawdown |-> Percent2(DailyMaxDrawdown(d)),
     MonthlyMaxDrawdown |-> Percent2(MonthlyMaxDrawdown(d).value),
     CalmarRatio |-> CalmarInline(CAGR(d), DailyMaxDrawdown(d)),
     WinRate |-> NA, ProfitFactor |-> NA, AvgTrade |-> NA, AvgWin |-> NA,
     AvgLoss |-> NA, TimeActive |-> NA,
     Volatility |-> Volatility(DailyReturn(d.EquityCurve))]

\* metrics (250-266), formatted like basic_metrics
Metrics(is_short, d, ts) ==
    [TotalTrades |-> Len(ts),
     TotalReturn |-> Percent2(TotalReturn(d.EquityCurve, Cardinality(DOMAIN d.Signal))),
     WinRate |-> Percent2(WinRate(ts)), ProfitFactor |-> Fixed2(ProfitFactor(ts)),
     AvgTrade |-> Fixed2(AvgTrade(ts)), AvgWin |-> Fixed2(AvgWin(ts)),
     AvgLoss |-> Fixed2(AvgLoss(ts)),
     CAGR |-> CAGR(d),
     SharpeRatio |-> SharpeRatio(DailyReturn(d.EquityCurve)),
     DailyMaxDrawdown |-> Percent2(DailyMaxDrawdown(d)),
     MonthlyMaxDrawdown |-> Percent2(MonthlyMaxDrawdown(d).value),
     CalmarRatio |-> CalmarRatio(CAGR(d), DailyMaxDrawdown(d)),
     Volatility |-> Volatility(DailyReturn(d.EquityCurve)),
     TimeActive |-> Percent2(TimeActive(is_short, d.Signal)),
     StrategyType |-> IF is_short THEN "Short" ELSE "Long"]

NoMetrics == [TotalTrades |-> 0]

\* What calculate_metrics returns: None (value "None") or the tuple
\* (metrics, trades_df) (value "tuple"); `at` names the return statement.
Returned(value, at, metrics, trades_df) ==
    [value |-> value, at |-> at, metrics |-> metrics, trades_df |-> trades_df]

NotReturned == Returned("pending", "", NoMetrics, <<>>)

\* calculate_metrics left by an exception instead of a return.
Raised(exception) == Returned("raised", exception, NoMetrics, <<>>)

\* The table after lines 62, 68 and 69 wrote their columns into it.
WithStatistics(d) ==
    [Date |-> d.Date, Close |-> d.Close, Signal |-> d.Signal, Units |-> d.Units,
     EntryPrice |-> d.EntryPrice, Position |-> d.Position,
     DaysInPosition |-> d.DaysInPosition, EquityCurve |-> d.EquityCurve,
     Daily_Return |-> DailyReturn(d.EquityCurve),
     Peak |-> PeakColumn(d.EquityCurve),
     Drawdown |-> DrawdownColumn(d.EquityCurve)]

\* The checks before the trade loop (27-50): None when the stream has no
\* signal, or when neither entries nor exits are found.
EarlyReturn(sig) ==
    IF ~HasBuySignals(sig) /\ ~HasSellSignals(sig)
    THEN Returned("None", "no_signals", NoMetrics, <<>>)
    ELSE IF EntryRows(sig) = {} /\ ExitRows(sig) = {}
    THEN Returned("None", "no_trades_executed", NoMetrics, <<>>)
    ELSE NotReturned

\* The returns after the trade loop (179-275).
FinalReturn(is_short, d, ts) ==
    IF Len(ts) = 0
    THEN IF HasBuySignals(d.Signal) \/ HasSellSignals(d.Signal)
         THEN Returned("tuple", "basic_metrics", BasicMetrics(d), <<>>)
         ELSE Returned("None", "no_complete_trades", NoMetrics, <<>>)
    ELSE Returned("tuple", "metrics", Metrics(is_short, d, ts), ts)

-----------------------------------------------------------------------------
\* main (437-471): what it returns, given calculate_metrics' result.
MainReturns(sig, res) ==
    LET has_signals == \E d \in DOMAIN sig : sig[d] # 0
    IN  IF res.value = "None"
        THEN IF has_signals
             THEN [branch |-> "empty_metrics", metrics |-> "empty_metrics",
                   trades_df |-> "empty", strategy_df |-> "strategy_df"]
             ELSE [branch |-> "no_trades", metrics |-> "None",
                   trades_df |-> "None", strategy_df |-> "strategy_df"]
        ELSE [branch |-> "metrics", metrics |-> "metrics",
              trades_df |-> "trades_df", strategy_df |-> "strategy_df"]

NotRun == [branch |-> "", metrics |-> "", trades_df |-> "", strategy_df |-> ""]

\* calculate_monthly_returns has not been called.
NotComputed == <<>>

\* run_backtest has shown nothing yet.
NotShown == ""

-----------------------------------------------------------------------------
\* calculate_monthly_returns(strategy_df) (473-537)

\* strategy_df.attrs.get('is_short_strategy', False): main sets the flag on
\* the table only when calculate_metrics returned a report (465-466).
ShortFlag(name, res) == res.branch = "metrics" /\ NameContainsShort(name)

\* df["BH_Daily"] (492-496)
BuyHoldDaily(d, is_short) ==
    LET change == PctChange([k \in DOMAIN d.Close |-> FInt(d.Close[k])])
    IN  IF is_short
        THEN [k \in DOMAIN change |-> XSub(FZero, change[k])]
        ELSE change

\* Series.prod() of x + 1 over the rows of a sequence, NaN skipped: 1 when
\* nothing is left.
RECURSIVE ProdPlusOne(_, _)
ProdPlusOne(x, rows) ==
    IF rows = <<>> THEN FOne
    ELSE IF x[Head(rows)] = NaN THEN ProdPlusOne(x, Tail(rows))
    ELSE XMul(XAdd(x[Head(rows)], FOne), ProdPlusOne(x, Tail(rows)))

\* The years and the months of a year that have rows.
YearsOf(d) == {Year(d.Date[k]) : k \in DOMAIN d.Date}
RowsOfMonth(d, year, month) ==
    {k \in DOMAIN d.Date : Year(d.Date[k]) = year /\ Month(d.Date[k]) = month}

\* groupby(["Year", "Month"])[column].apply(lambda x: (x + 1).prod() - 1)
\* .unstack() (499-500): one row per year, NaN where the year has no such month
MonthlyTable(d, column) ==
    [year \in YearsOf(d) |->
        [month \in 1 .. MonthsPerYear |->
            IF RowsOfMonth(d, year, month) = {} THEN NaN
            ELSE XSub(ProdPlusOne(column, Ascending(RowsOfMonth(d, year, month))), FOne)]]

\* A yearly return that adds the year's monthly returns up.
RECURSIVE SumOver(_, _)
SumOver(x, rows) ==
    IF rows = <<>> THEN FZero
    ELSE IF x[Head(rows)] = NaN THEN SumOver(x, Tail(rows))
    ELSE XAdd(x[Head(rows)], SumOver(x, Tail(rows)))

YearlySum(year_returns) ==
    LET summed == SumOver(year_returns, Ascending(DOMAIN year_returns))
    IN  IF summed = NaN THEN FZero ELSE summed

\* compounded_return (508-527): (year_returns + 1).prod(skipna=True) - 1, and
\* 0 in place of NaN
YearlyReturn(year_returns) ==
    LET compounded ==
            XSub(ProdPlusOne(year_returns, Ascending(DOMAIN year_returns)), FOne)
    IN  IF compounded = NaN THEN FZero ELSE compounded

\* final_df (530-537): per year the month columns of the strategy, its
\* compounded return and that of buy and hold.
MonthlyReturns(d, is_short) ==
    LET monthly_returns == MonthlyTable(d, PctChange(d.EquityCurve))
        bh_returns      == MonthlyTable(d, BuyHoldDaily(d, is_short))
    IN  [year \in YearsOf(d) |->
            [months |-> monthly_returns[year],
             StratReturns |-> YearlyReturn(monthly_returns[year]),
             bh_returns |-> YearlyReturn(bh_returns[year])]]

-----------------------------------------------------------------------------
\* The run.

Table(closes, signals, equity) ==
    [Date |-> [d \in DOMAIN closes |-> d],
     Close |-> closes, Signal |-> signals,
     Units |-> ZeroColumn(Cardinality(DOMAIN closes)),
     EntryPrice |-> ZeroColumn(Cardinality(DOMAIN closes)),
     Position |-> ZeroColumn(Cardinality(DOMAIN closes)),
     DaysInPosition |-> ZeroColumn(Cardinality(DOMAIN closes)),
     EquityCurve |-> equity]

EquityVars(e) ==
    /\ in_position' = e.in_position
    /\ entry_price' = e.entry_price
    /\ entry_prices' = e.entry_prices
    /\ position_size' = e.position_size
    /\ running_equity' = e.running_equity
    /\ open_day' = e.open_day
    /\ closings' = e.closings

EquityState ==
    [in_position |-> in_position, entry_price |-> entry_price,
     entry_prices |-> entry_prices, position_size |-> position_size,
     running_equity |-> running_equity, open_day |-> open_day,
     closings |-> closings]

MetricsState ==
    [position |-> position, entry_price |-> cm_entry_price,
     entry_date |-> entry_date, trades |-> trades]

\* main is called with a provider module and a price table; generate_signals
\* has set Signal (and its bookkeeping columns) to 0 and stands before its
\* signal loop.
Init ==
    /\ strategy_name \in Strategies
    /\ \E c \in CloseTables(strategy_name) :
          df = Table(c, ZeroColumn(Rows(strategy_name)),
                     [d \in 0 .. Rows(strategy_name) - 1 |-> None])
    /\ pc = "signal_loop"
    /\ i = FirstIndex(strategy_name)
    /\ in_position = FALSE
    /\ last_entry_price = 0
    /\ NoBreakout
    /\ entry_price = None
    /\ entry_prices = <<>>
    /\ position_size = 0
    /\ running_equity = FOne
    /\ open_day = -1
    /\ closings = <<>>
    /\ position = 0
    /\ cm_entry_price = 0
    /\ entry_date = -1
    /\ trades = <<>>
    /\ result = NotReturned
    /\ main_result = NotRun
    /\ monthly_df = NotComputed
    /\ shown = NotShown

\* One iteration of the provider's signal loop.
SignalStep ==
    /\ pc = "signal_loop"
    /\ i < n
    /\ \E entry_cond \in BOOLEAN, exit_cond \in BOOLEAN, add_cond \in BOOLEAN :
          /\ HasAddCondition(strategy_name) \/ ~add_cond
          /\ LET out == SignalLoopBody(strategy_name, df, in_position,
                                       last_entry_price, i,
                                       entry_cond, exit_cond, add_cond)
             IN  /\ df' = out.df
                 /\ in_position' = out.in_position
                 /\ last_entry_price' = out.last_entry_price
    /\ i' = i + 1
    /\ UNCHANGED <<strategy_name, pc, breakout_locals, entry_price, entry_prices, position_size,
                   running_equity, open_day, closings, metrics_locals, result,
                   main_result, monthly_df, shown>>

\* The signal loop is over: df['EquityCurve'] = 1.0 and the equity loop's locals.
EquityInit ==
    /\ pc = "signal_loop"
    /\ i = n
    /\ df' = [df EXCEPT !.EquityCurve = [d \in 0 .. n - 1 |-> FOne]]
    /\ EquityVars(EquityLocals(strategy_name))
    /\ pc' = "equity_loop"
    /\ i' = 1
    /\ UNCHANGED <<strategy_name, last_entry_price, breakout_locals, metrics_locals, result,
                   main_result, monthly_df, shown>>

\* One iteration of the provider's equity loop.
EquityStep ==
    /\ pc = "equity_loop"
    /\ i < n
    /\ LET out == EquityLoopBody(strategy_name, df, EquityState, i)
       IN  /\ df' = out.df
           /\ EquityVars(out.e)
    /\ i' = i + 1
    /\ UNCHANGED <<strategy_name, pc, last_entry_price, breakout_locals, metrics_locals, result,
                   main_result, monthly_df, shown>>

\* generate_signals returns the table; main (413-441) finds it valid and calls
\* calculate_metrics.
GenerateSignalsReturn ==
    /\ pc = "equity_loop"
    /\ i = n
    /\ pc' = "calculate_metrics"
    /\ UNCHANGED <<strategy_name, df, i, signal_locals, equity_locals,
                   metrics_locals, result, main_result, monthly_df, shown>>

\* calculate_metrics up to its trade loop (27-134): the early returns, the
\* division by the span of the dates, which raises when the span is zero days
\* (main does not catch it), and the columns written to the table.
CalculateMetrics ==
    /\ pc = "calculate_metrics"
    /\ LET early == EarlyReturn(df.Signal)
       IN  IF early.value = "None"
           THEN /\ result' = early
                /\ pc' = "main"
                /\ UNCHANGED <<df, i, metrics_locals>>
           ELSE IF DaysSpan(df) = 0
           THEN /\ result' = Raised("ZeroDivisionError")
                /\ pc' = "raised"
                /\ UNCHANGED <<df, i, metrics_locals>>
           ELSE /\ df' = WithStatistics(df)
                /\ pc' = "trade_loop"
                /\ i' = 0
                /\ position' = 0
                /\ cm_entry_price' = 0
                /\ entry_date' = -1
                /\ trades' = <<>>
                /\ UNCHANGED result
    /\ UNCHANGED <<strategy_name, signal_locals, equity_locals, main_result, monthly_df, shown>>

\* One iteration of calculate_metrics' trade loop.
TradeStep ==
    /\ pc = "trade_loop"
    /\ i < n
    /\ LET m == TradeLoopBody(IsShortStrategy(strategy_name), df, MetricsState, i)
       IN  /\ position' = m.position
           /\ cm_entry_price' = m.entry_price
           /\ entry_date' = m.entry_date
           /\ trades' = m.trades
    /\ i' = i + 1
    /\ UNCHANGED <<strategy_name, df, pc, signal_locals, equity_locals, result,
                   main_result, monthly_df, shown>>

\* The trade loop is over: the statistics and the return (179-275).
Report ==
    /\ pc = "trade_loop"
    /\ i = n
    /\ result' = FinalReturn(IsShortStrategy(strategy_name), df, trades)
    /\ pc' = "main"
    /\ UNCHANGED <<strategy_name, df, i, signal_locals, equity_locals,
                   metrics_locals, main_result, monthly_df, shown>>

\* main returns (443-471).
MainReturn ==
    /\ pc = "main"
    /\ main_result' = MainReturns(df.Signal, result)
    /\ pc' = "done"
    /\ UNCHANGED <<strategy_name, df, i, signal_locals, equity_locals,
                   metrics_locals, result, monthly_df, shown>>

Next ==
    \/ SignalStep
    \/ EquityInit
    \/ EquityStep
    \/ GenerateSignalsReturn
    \/ CalculateMetrics
    \/ TradeStep
    \/ Report
    \/ MainReturn

Spec == Init /\ [][Next]_vars

-----------------------------------------------------------------------------
\* The statistics of whole runs: a lag-1 provider of either direction has
\* walked a table of one row or of StatsRows rows whose dates fall into
\* months, and main analyses the table it returned.

StatsNames == {"rsi_ibs_mean_reversion", "short_smh_bundle3_strategy3"}

\* The Date column of a table: each row is the day after the row before it,
\* or the first day of the next month.
DateColumn(rows, newmonth) ==
    LET date[k \in 0 .. rows - 1] ==
            IF k = 0 THEN 0
            ELSE IF newmonth[k] THEN (YearMonth(date[k - 1]) + 1) * DaysPerMonth
            ELSE date[k - 1] + 1
    IN  date

\* The signal loop from row k on; fire[k] is the truth of the row's entry
\* condition while flat and of its exit condition while in a position.
RECURSIVE SignalLoopFrom(_, _, _, _)
SignalLoopFrom(name, out, k, fire) ==
    IF k = Cardinality(DOMAIN out.df.Close) THEN out
    ELSE SignalLoopFrom(name,
                        SignalLoopBody(name, out.df, out.in_position,
                                       out.last_entry_price, k, fire[k], fire[k], FALSE),
                        k + 1, fire)

\* The equity loop from row k on.
RECURSIVE EquityLoopFrom(_, _, _)
EquityLoopFrom(name, out, k) ==
    IF k >= Cardinality(DOMAIN out.df.Close) THEN out
    ELSE EquityLoopFrom(name, EquityLoopBody(name, out.df, out.e, k), k + 1)

\* generate_signals(df): the table and the loops' locals at its return.
GenerateSignals(name, d, fire) ==
    LET signals == SignalLoopFrom(name, SignalOut(d, FALSE, 0), FirstIndex(name), fire)
        flat    == [signals.df EXCEPT
                        !.EquityCurve = [k \in DOMAIN d.Close |-> FOne]]
        equity  == EquityLoopFrom(name, [df |-> flat, e |-> EquityLocals(name)], 1)
    IN  [df |-> equity.df, e |-> equity.e, signals |-> signals]

\* The tables and locals with which generate_signals can return when the
\* closes are among prices.  A row without a signal closes at the highest
\* price when quiet is set: no loop of the provider and no line of
\* calculate_metrics reads such a close.
ProviderRuns(name, rows, prices, quiet) ==
    LET high == CHOOSE p \in prices : \A q \in prices : q <= p
    IN  {GenerateSignals(name,
                         [Table(t[1], ZeroColumn(rows), [d \in 0 .. rows - 1 |-> None])
                             EXCEPT !.Date = DateColumn(rows, t[3])],
                         t[2]) :
            t \in {u \in [0 .. rows - 1 -> prices] \X [0 .. rows - 1 -> BOOLEAN]
                         \X [1 .. rows - 1 -> BOOLEAN] :
                    quiet => \A k \in 0 .. rows - 1 : u[2][k] \/ u[1][k] = high}}

\* main stands before its call of calculate_metrics with the table of a run.
AtCalculateMetrics(out) ==
    /\ df = out.df
    /\ i = Cardinality(DOMAIN out.df.Close)
    /\ in_position = out.e.in_position
    /\ last_entry_price = out.signals.last_entry_price
    /\ NoBreakout
    /\ entry_price = out.e.entry_price
    /\ entry_prices = out.e.entry_prices
    /\ position_size = out.e.position_size
    /\ running_equity = out.e.running_equity
    /\ open_day = out.e.open_day
    /\ closings = out.e.closings
    /\ pc = "calculate_metrics"
    /\ position = 0
    /\ cm_entry_price = 0
    /\ entry_date = -1
    /\ trades = <<>>
    /\ result = NotReturned
    /\ main_result = NotRun
    /\ monthly_df = NotComputed
    /\ shown = NotShown

InitStats ==
    /\ strategy_name \in StatsNames
    /\ \E rows \in {1, StatsRows} :
       \E out \in ProviderRuns(strategy_name, rows, Prices, TRUE) : AtCalculateMetrics(out)

NextStats ==
    \/ CalculateMetrics
    \/ TradeStep
    \/ Report
    \/ MainReturn

SpecStats == InitStats /\ [][NextStats]_vars

-----------------------------------------------------------------------------
\* The monthly returns of whole runs: after main has returned, its caller
\* passes the table to calculate_monthly_returns (run_backtest.py 382, 428).

InitMonthly ==
    /\ strategy_name \in StatsNames
    /\ \E out \in ProviderRuns(strategy_name, MonthlyRows, Prices, TRUE) :
          AtCalculateMetrics(out)

\* calculate_monthly_returns works on a copy of the table it is given.
CalculateMonthlyReturns ==
    /\ pc = "done"
    /\ monthly_df' = MonthlyReturns(df, ShortFlag(strategy_name, main_result))
    /\ pc' = "monthly_returns"
    /\ UNCHANGED <<strategy_name, df, i, signal_locals, equity_locals,
                   metrics_locals, result, main_result, shown>>

NextMonthly ==
    \/ CalculateMetrics
    \/ TradeStep
    \/ Report
    \/ MainReturn
    \/ CalculateMonthlyReturns

SpecMonthly == InitMonthly /\ [][NextMonthly]_vars

-----------------------------------------------------------------------------
\* The GUI: BacktestApp.run_backtest calls backtest.main and tells the user
\* what came of it (run_backtest.py 291-336).  main first fetches the prices
\* and applies the provider; either step can fail.

\* main's return None, None, None (398, 402, 415-432, 435)
Failed(step) ==
    [branch |-> step, metrics |-> "None", trades_df |-> "None", strategy_df |-> "None"]

\* metrics.get("Total Trades", 0) of what main returned
TotalTradesOf(res, cm) ==
    IF res.metrics = "metrics" THEN cm.metrics.TotalTrades ELSE 0

\* What run_backtest shows for main's result (294-318): the message box, or
\* the status line when the results are displayed.  No return statement of
\* main yields None or a shorter tuple.
Shown(res, cm) ==
    IF res.branch = "None"
    THEN "No data available"
    ELSE IF res.metrics = "None" /\ res.strategy_df = "None"
    THEN "No trades were executed"
    ELSE IF res.metrics = "None" \/ TotalTradesOf(res, cm) = 0
    THEN "Backtest completed with no trades"
    ELSE "Backtest completed"

\* main stands before get_data with the table the provider will return if the
\* prices load and the provider runs.
InitGui ==
    /\ strategy_name \in StatsNames
    /\ \E rows \in {1, GuiRows} :
       \E out \in ProviderRuns(strategy_name, rows, Prices, TRUE) :
          /\ df = out.df
          /\ i = Cardinality(DOMAIN out.df.Close)
          /\ in_position = out.e.in_position
          /\ last_entry_price = out.signals.last_entry_price
          /\ NoBreakout
          /\ entry_price = out.e.entry_price
          /\ entry_prices = out.e.entry_prices
          /\ position_size = out.e.position_size
          /\ running_equity = out.e.running_equity
          /\ open_day = out.e.open_day
          /\ closings = out.e.closings
    /\ pc = "get_data"
    /\ position = 0
    /\ cm_entry_price = 0
    /\ entry_date = -1
    /\ trades = <<>>
    /\ result = NotReturned
    /\ main_result = NotRun
    /\ monthly_df = NotComputed
    /\ shown = NotShown

\* get_data raises or returns an empty table (395-403), or the prices load.
GetData ==
    /\ pc = "get_data"
    /\ \E loaded \in BOOLEAN :
          IF loaded
          THEN pc' = "generate_signals" /\ UNCHANGED main_result
          ELSE pc' = "done" /\ main_result' = Failed("get_data")
    /\ UNCHANGED <<strategy_name, df, i, signal_locals, equity_locals,
                   metrics_locals, result, monthly_df, shown>>

\* The provider raises or returns no usable table (407-435), or it runs.
ApplyStrategy ==
    /\ pc = "generate_signals"
    /\ \E ran \in BOOLEAN :
          IF ran
          THEN pc' = "calculate_metrics" /\ UNCHANGED main_result
          ELSE pc' = "done" /\ main_result' = Failed("generate_signals")
    /\ UNCHANGED <<strategy_name, df, i, signal_locals, equity_locals,
                   metrics_locals, result, monthly_df, shown>>

\* run_backtest after main returned (294-318).
RunBacktest ==
    /\ pc = "done"
    /\ shown' = Shown(main_result, result)
    /\ pc' = "shown"
    /\ UNCHANGED <<strategy_name, df, i, signal_locals, equity_locals,
                   metrics_locals, result, main_result, monthly_df>>

\* run_backtest's except branch (320-336): main let an exception through.
RunBacktestExcept ==
    /\ pc = "raised"
    /\ shown' = "Backtest Error"
    /\ pc' = "shown"
    /\ UNCHANGED <<strategy_name, df, i, signal_locals, equity_locals,
                   metrics_locals, result, main_result, monthly_df>>

NextGui ==
    \/ GetData
    \/ ApplyStrategy
    \/ CalculateMetrics
    \/ TradeStep
    \/ Report
    \/ MainReturn
    \/ RunBacktest
    \/ RunBacktestExcept

SpecGui == InitGui /\ [][NextGui]_vars

-----------------------------------------------------------------------------
\* The scale-in providers on streams long enough for every step of their
\* sizing: generate_signals alone, on closes from 1 to LadderPrices.

ScaleInNames == {name \in Strategies : Sizing(name) # "single"}

InitSizing ==
    /\ strategy_name \in ScaleInNames
    /\ \E c \in [0 .. FirstIndex(strategy_name) + SizingHorizon - 1 -> 1 .. LadderPrices] :
          /\ \A d \in 0 .. FirstIndex(strategy_name) - 1 : c[d] = LadderPrices
          /\ df = Table(c, ZeroColumn(FirstIndex(strategy_name) + SizingHorizon),
                        [d \in DOMAIN c |-> None])
    /\ pc = "signal_loop"
    /\ i = FirstIndex(strategy_name)
    /\ in_position = FALSE
    /\ last_entry_price = 0
    /\ NoBreakout
    /\ entry_price = None
    /\ entry_prices = <<>>
    /\ position_size = 0
    /\ running_equity = FOne
    /\ open_day = -1
    /\ closings = <<>>
    /\ position = 0
    /\ cm_entry_price = 0
    /\ entry_date = -1
    /\ trades = <<>>
    /\ result = NotReturned
    /\ main_result = NotRun
    /\ monthly_df = NotComputed
    /\ shown = NotShown

NextSizing ==
    \/ SignalStep
    \/ EquityInit
    \/ EquityStep
    \/ GenerateSignalsReturn

SpecSizing == InitSizing /\ [][NextSizing]_vars

-----------------------------------------------------------------------------
\* open_breakout_ibs_strategy.generate_signals(df, ibs_limit, time_stop): the
\* signal loop.  buy_cond and sell_cond are computed for every row before the
\* loop starts; the loop reads no price.

BreakoutOut(d, inpos, eidx) == [df |-> d, in_position |-> inpos, entry_idx |-> eidx]

\* A loop whose only exit is the breakout.
SignalLoopNoTimeStop(d, inpos, eidx, k, stop, buy, sell) ==
    IF ~inpos /\ buy[k]
    THEN BreakoutOut([d EXCEPT !.Signal[k] = 1], TRUE, k)
    ELSE IF inpos /\ sell[k]
    THEN BreakoutOut([d EXCEPT !.Signal[k] = -1], FALSE, -1)
    ELSE BreakoutOut(d, inpos, eidx)

\* open_breakout_ibs_strategy.py 53-67
SignalLoopTimeStop(d, inpos, eidx, k, stop, buy, sell) ==
    IF ~inpos /\ buy[k]
    THEN BreakoutOut([d EXCEPT !.Signal[k] = 1], TRUE, k)
    ELSE IF inpos
    THEN IF stop # -1 /\ k - eidx >= stop
         THEN BreakoutOut([d EXCEPT !.Signal[k] = -1], FALSE, -1)
         ELSE IF sell[k]
         THEN BreakoutOut([d EXCEPT !.Signal[k] = -1], FALSE, -1)
         ELSE BreakoutOut(d, inpos, eidx)
    ELSE BreakoutOut(d, inpos, eidx)

\* time_stop is None or a number of bars.
TimeStops == {-1} \cup 1 .. MaxTimeStop

InitBreakout ==
    /\ strategy_name = "open_breakout_ibs_strategy"
    /\ df = Table([d \in 0 .. BreakoutRows - 1 |-> MaxPrice], ZeroColumn(BreakoutRows),
                  [d \in 0 .. BreakoutRows - 1 |-> None])
    /\ time_stop \in TimeStops
    /\ buy_cond \in [0 .. BreakoutRows - 1 -> BOOLEAN]
    /\ sell_cond \in [0 .. BreakoutRows - 1 -> BOOLEAN]
    /\ entry_idx = -1
    /\ pc = "signal_loop"
    /\ i = 0
    /\ in_position = FALSE
    /\ last_entry_price = 0
    /\ entry_price = None
    /\ entry_prices = <<>>
    /\ position_size = 0
    /\ running_equity = FOne
    /\ open_day = -1
    /\ closings = <<>>
    /\ position = 0
    /\ cm_entry_price = 0
    /\ entry_date = -1
    /\ trades = <<>>
    /\ result = NotReturned
    /\ main_result = NotRun
    /\ monthly_df = NotComputed
    /\ shown = NotShown

\* One iteration of the signal loop.
BreakoutStep ==
    /\ pc = "signal_loop"
    /\ i < n
    /\ LET out == SignalLoopTimeStop(df, in_position, entry_idx, i, time_stop,
                                     buy_cond, sell_cond)
       IN  /\ df' = out.df
           /\ in_position' = out.in_position
           /\ entry_idx' = out.entry_idx
    /\ i' = i + 1
    /\ UNCHANGED <<strategy_name, pc, last_entry_price, time_stop, buy_cond, sell_cond,
                   equity_locals, metrics_locals, result, main_result, monthly_df,
                   shown>>

SpecBreakout == InitBreakout /\ [][BreakoutStep]_vars

-----------------------------------------------------------------------------
\* Vocabulary of the properties.

\* Rows 1.. whose EquityCurve value the equity loop has written.
WrittenRows ==
    CASE pc = "signal_loop" -> {}
      [] pc = "equity_loop" -> 1 .. i - 1
      [] OTHER -> 1 .. n - 1

EquityDone == pc \in {"calculate_metrics", "trade_loop", "main", "done"}

\* The closes the equity loop applied on row t.
ClosingsOn(t) == {k \in 1 .. Len(closings) : closings[k].day = t}

\* equity[t-1], compounded by the return of the position closed on row t-1.
LagOne(t) ==
    IF ClosingsOn(t - 1) = {} THEN df.EquityCurve[t - 1]
    ELSE Compound(df.EquityCurve[t - 1], closings[CHOOSE k \in ClosingsOn(t - 1) : TRUE].ret)

\* calculate_metrics' TradeLog once it has returned one.
HasTradeLog == pc \in {"main", "done"} /\ result.value = "tuple"

-----------------------------------------------------------------------------
\* C1: in every provider's equity loop, for every day t >= 1, equity[t] is
\* equity[t-1], or equity[t-1] * (1 + return) when a position was closed on
\* day t-1: a close is realized one day after the Exit bar, never on it.
C1_LagOneEquity ==
    \A t \in WrittenRows : df.EquityCurve[t] = LagOne(t)

\* C2: the TradeLog of calculate_metrics holds exactly one trade per close the
\* provider's equity loop applied, in date order: the k-th trade exits on the
\* day of the k-th close and enters on the day that position was opened, and
\* trades do not overlap.
C2_TradeLogMatchesClosings ==
    HasTradeLog =>
        /\ Len(result.trades_df) = Len(closings)
        /\ \A k \in 1 .. Len(result.trades_df) :
              /\ result.trades_df[k].ExitDate = closings[k].day
              /\ result.trades_df[k].EntryDate = closings[k].entry_day
              /\ result.trades_df[k].EntryDate < result.trades_df[k].ExitDate
              /\ k > 1 => result.trades_df[k - 1].ExitDate < result.trades_df[k].EntryDate

\* C3: when the TradeLog holds exactly one trade, of return r > -1, the last
\* value of the equity curve is 1 + r, wherever the Exit falls and whether or
\* not units were added.
C3_SingleTradeEquity ==
    (HasTradeLog /\ Len(result.trades_df) = 1) =>
        LET r == FDiv(result.trades_df[1].ReturnPct, FInt(100))
        IN  FLt(FInt(-1), r) => df.EquityCurve[n - 1] = FAdd(FOne, r)

\* C4 as stated: on every day t with an Enter signal, equity[t] = equity[t-1],
\* also when the Enter directly follows an Exit recorded on day t-1.
C4_EnterBarNeverMoves ==
    \A t \in WrittenRows :
        df.Signal[t] = EnterSignal(strategy_name) => df.EquityCurve[t] = df.EquityCurve[t - 1]

\* C4 as amended: on every day t >= 1 with an Enter signal the Enter itself
\* moves nothing: equity[t] = equity[t-1], except in a lag-1 provider when a
\* position was closed on day t-1, where equity[t] is equity[t-1] compounded
\* by the return of that trade.
C4_EnterBarMovesOnlyByLaggedClose ==
    \A t \in WrittenRows :
        df.Signal[t] = EnterSignal(strategy_name) =>
            df.EquityCurve[t] =
                IF LoopKind(strategy_name) = "lag" THEN LagOne(t) ELSE df.EquityCurve[t - 1]

\* An Enter directly after an Exit whose trade made or lost money, in a lag-1
\* provider, and an Enter in a same-bar provider, are both reached.
C4_Witness ==
    /\ pc = "done"
    /\ LoopKind(strategy_name) = "lag"
    /\ \E t \in 1 .. n - 1 :
          /\ df.Signal[t] = EnterSignal(strategy_name)
          /\ df.Signal[t - 1] = ExitSignal(strategy_name)
          /\ df.EquityCurve[t] # df.EquityCurve[t - 1]

-----------------------------------------------------------------------------
\* C5.  Rows whose bookkeeping columns the signal loop has written.
SignalRows ==
    IF pc = "signal_loop" THEN FirstIndex(strategy_name) .. i - 1
    ELSE FirstIndex(strategy_name) .. n - 1

\* An Exit row of the signal loop holds no unit, no position and no entry price.
SignalLoopFlatAfterExit ==
    /\ \A t \in SignalRows :
          df.Signal[t] = ExitSignal(strategy_name) =>
              df.Units[t] = 0 /\ df.Position[t] = 0 /\ df.EntryPrice[t] = 0
    /\ (pc = "signal_loop" /\ ~in_position /\ Sizing(strategy_name) = "tps")
          => last_entry_price = 0

\* The row that opens a position records that day's close as its entry price.
SignalLoopFreshEntry ==
    \A t \in SignalRows :
        (/\ Sizing(strategy_name) \in {"second_unit_price", "tps"}
         /\ df.Signal[t] = -1
         /\ df.Units[t - 1] = 0 /\ df.Position[t - 1] = 0
         /\ df.Units[t] + df.Position[t] = 1)
            => df.EntryPrice[t] = df.Close[t]

\* Between positions the equity loop holds no unit and no position size.
EquityLoopFlatAfterExit ==
    (pc = "equity_loop" /\ ~in_position) =>
        /\ entry_prices = <<>>
        /\ position_size = 0
        /\ Sizing(strategy_name) = "tps" => entry_price = FZero
        /\ (LoopKind(strategy_name) = "same" /\ Sizing(strategy_name) = "single")
              => entry_price = None

\* An open position of the equity loop was entered at the close of the day it
\* was opened, after every close applied so far.
EquityLoopFreshEntry ==
    (pc = "equity_loop" /\ in_position) =>
        /\ open_day \in 0 .. i - 1
        /\ \A k \in 1 .. Len(closings) : closings[k].day < open_day
        /\ CASE Sizing(strategy_name) = "single" ->
                    entry_price = FInt(df.Close[open_day])
             [] Sizing(strategy_name) = "tps" ->
                    /\ position_size = df.Position[i - 1]
                    /\ position_size = 1 => entry_price = FInt(df.Close[open_day])
             [] OTHER ->
                    /\ Len(entry_prices) = df.Units[i - 1]
                    /\ Head(entry_prices) = FInt(df.Close[open_day])
                    /\ \A u \in 1 .. Len(entry_prices) :
                          \E t \in open_day .. i - 1 : entry_prices[u] = FInt(df.Close[t])

\* The return each close applied was computed from the close of its own
\* entry day (single-unit providers).
ClosingsUseOwnEntry ==
    Sizing(strategy_name) = "single" =>
        \A k \in 1 .. Len(closings) :
            closings[k].ret = TradeReturn(Direction(strategy_name),
                                          FInt(df.Close[closings[k].entry_day]),
                                          FInt(df.Close[closings[k].day]))

\* calculate_metrics holds a whole position or none, entered at the close of
\* its entry day, after the exit of every trade logged so far.
TradeLoopFreshEntry ==
    pc = "trade_loop" =>
        /\ position \in {-1, 0, 1}
        /\ \A k \in 1 .. Len(trades) :
              trades[k].EntryPrice = df.Close[trades[k].EntryDate]
        /\ position # 0 =>
              /\ cm_entry_price = df.Close[entry_date]
              /\ \A k \in 1 .. Len(trades) : trades[k].ExitDate < entry_date

\* C5 as stated: when an Exit is processed while a position is open, the whole
\* position is closed and the state is flat again: unit count and position
\* size 0 and the stored entry price(s) cleared, in the signal loops, the
\* equity loops and calculate_metrics alike.
C5_ExitClearsEntryPrices ==
    /\ SignalLoopFlatAfterExit
    /\ EquityLoopFlatAfterExit
    /\ (pc = "equity_loop" /\ ~in_position) => entry_price \in {None, FZero}
    /\ (pc = "trade_loop" /\ position = 0) => cm_entry_price = 0

\* C5 as amended: an Exit closes the whole position and leaves no unit, no
\* position size and no list of unit entry prices behind; the same-bar loops
\* also clear their scalar entry price, while the lag-1 equity loops and
\* calculate_metrics keep the old one until the next Enter overwrites it.  In
\* every loop the next Enter's entry price is that day's close alone.
C5_ExitResetsPosition ==
    /\ SignalLoopFlatAfterExit
    /\ SignalLoopFreshEntry
    /\ EquityLoopFlatAfterExit
    /\ EquityLoopFreshEntry
    /\ ClosingsUseOwnEntry
    /\ TradeLoopFreshEntry

\* calculate_metrics holds a second position, entered at another price than
\* the trade it has logged.
C5_Witness ==
    /\ pc = "trade_loop"
    /\ position # 0
    /\ Len(trades) = 1
    /\ cm_entry_price # trades[1].EntryPrice
    /\ Len(closings) >= 1

-----------------------------------------------------------------------------
\* C6.  The last Exit row of the stream (-1 when there is none), and the row
\* on which the position still open at the end was opened.
LastExitRow ==
    LET rows == {t \in 0 .. n - 1 : df.Signal[t] = ExitSignal(strategy_name)}
    IN  IF rows = {} THEN -1 ELSE CHOOSE t \in rows : \A u \in rows : u <= t

EntersAfterLastExit ==
    {t \in 0 .. n - 1 : t > LastExitRow /\ df.Signal[t] = EnterSignal(strategy_name)}

OpenAtEnd == EquityDone /\ EntersAfterLastExit # {}

OpenRow == CHOOSE t \in EntersAfterLastExit : \A u \in EntersAfterLastExit : t <= u

\* 1.0 compounded by every close the equity loop applied.
RECURSIVE RealizedEquity(_)
RealizedEquity(cs) ==
    IF cs = <<>> THEN FOne
    ELSE Compound(RealizedEquity(SubSeq(cs, 1, Len(cs) - 1)), cs[Len(cs)].ret)

\* C6: when the stream ends with a position still open, no trade is logged for
\* that position and the equity curve stays at the last realized equity from
\* the row the position was opened on, whatever the later closes are.
C6_OpenPositionUnrealized ==
    OpenAtEnd =>
        /\ \A t \in OpenRow .. n - 1 : df.EquityCurve[t] = RealizedEquity(closings)
        /\ \A k \in 1 .. Len(trades) : trades[k].EntryDate < OpenRow
        /\ \A k \in 1 .. Len(result.trades_df) : result.trades_df[k].EntryDate < OpenRow

\* A run that ended with a position opened before the last row, whose closes
\* have moved since the entry.
C6_Witness ==
    /\ pc = "done"
    /\ OpenAtEnd
    /\ OpenRow < n - 2
    /\ df.Close[n - 2] # df.Close[OpenRow]
    /\ df.Close[n - 1] # df.Close[n - 2]

-----------------------------------------------------------------------------
\* C7: a stream with no signal leaves equity at 1.0 throughout, makes
\* calculate_metrics return None and main return (None, None, strategy_df); a
\* stream with at least one signal never makes calculate_metrics return None,
\* so its later None returns and main's fallback for it are never taken.
NoSignals == \A t \in 0 .. n - 1 : df.Signal[t] = 0

C7_NoneIffNoSignals ==
    /\ (EquityDone /\ NoSignals) => \A t \in 0 .. n - 1 : df.EquityCurve[t] = FOne
    /\ pc \in {"main", "done"} =>
          /\ (result.value = "None") <=> NoSignals
          /\ result.at \notin {"no_trades_executed", "no_complete_trades"}
    /\ pc = "done" =>
          /\ main_result.branch # "empty_metrics"
          /\ NoSignals =>
                /\ main_result.metrics = "None"
                /\ main_result.trades_df = "None"
                /\ main_result.strategy_df = "strategy_df"

C7_Witness ==
    /\ pc = "done"
    /\ NoSignals
    /\ result.at = "no_signals"
    /\ main_result.branch = "no_trades"

-----------------------------------------------------------------------------
\* C8: a stream that has signals but no Exit, so that no trade ever closes,
\* gets the partial report: Total Trades 0, the trade statistics Win Rate,
\* Profit Factor, Avg Trade, Avg Win, Avg Loss and Time Active all "N/A", and
\* an empty TradeLog.
NoExit == \A t \in 0 .. n - 1 : df.Signal[t] # ExitSignal(strategy_name)

-----------------------------------------------------------------------------
\* C9: the direction calculate_metrics uses for a provider, and stamps on its
\* trades, is the direction the provider trades in, whatever its module name.
C9_DirectionIsTraded ==
    (HasTradeLog /\ result.at = "metrics") =>
        /\ IsShortStrategy(strategy_name) <=> Direction(strategy_name) = "Short"
        /\ result.metrics.StrategyType = Direction(strategy_name)
        /\ \A k \in 1 .. Len(result.trades_df) :
              result.trades_df[k].Type = Direction(strategy_name)

-----------------------------------------------------------------------------
\* C10.  main with a provider that returns any Signal column over {-1, 0, 1}
\* (main loads the module by name and checks only that the table is not
\* empty, 407-441); the module name either contains "short" or does not.
AnalyzedNames == {"rsi_ibs_mean_reversion", "short_smh_bundle3_strategy3"}

InitAnalyze ==
    /\ strategy_name \in AnalyzedNames
    /\ \E c \in CloseTables(strategy_name),
          s \in [0 .. Rows(strategy_name) - 1 -> {-1, 0, 1}] :
          df = Table(c, s, [d \in 0 .. Rows(strategy_name) - 1 |-> FOne])
    /\ pc = "calculate_metrics"
    /\ i = Rows(strategy_name)
    /\ in_position = FALSE
    /\ last_entry_price = 0
    /\ NoBreakout
    /\ entry_price = FZero
    /\ entry_prices = <<>>
    /\ position_size = 0
    /\ running_equity = FOne
    /\ open_day = -1
    /\ closings = <<>>
    /\ position = 0
    /\ cm_entry_price = 0
    /\ entry_date = -1
    /\ trades = <<>>
    /\ result = NotReturned
    /\ main_result = NotRun
    /\ monthly_df = NotComputed
    /\ shown = NotShown

NextAnalyze ==
    \/ CalculateMetrics
    \/ TradeStep
    \/ Report
    \/ MainReturn

SpecAnalyze == InitAnalyze /\ [][NextAnalyze]_vars

\* The directions of the positions a stream opens, read without knowing the
\* provider: from flat, +1 opens a long and -1 a short; +1 covers a short and
\* -1 sells a long; a repeated signal adds to the position held.
RECURSIVE OpenedDirections(_, _, _)
OpenedDirections(sig, k, held) ==
    IF k \notin DOMAIN sig THEN {}
    ELSE CASE sig[k] = 1 /\ held = 0 -> {"Long"} \cup OpenedDirections(sig, k + 1, 1)
           [] sig[k] = -1 /\ held = 0 -> {"Short"} \cup OpenedDirections(sig, k + 1, -1)
           [] sig[k] = 1 /\ held = -1 -> OpenedDirections(sig, k + 1, 0)
           [] sig[k] = -1 /\ held = 1 -> OpenedDirections(sig, k + 1, 0)
           [] OTHER -> OpenedDirections(sig, k + 1, held)

MixedDirection(sig) == OpenedDirections(sig, 0, 0) = {"Long", "Short"}

\* C10: a stream that mixes directions is rejected as a DataError and yields
\* no metrics, no TradeLog and no equity output.
C10_MixedStreamRejected ==
    (pc = "done" /\ MixedDirection(df.Signal)) =>
        /\ result.value = "DataError"
        /\ main_result.branch = "DataError"

-----------------------------------------------------------------------------
\* Vocabulary of the statistics.

\* calculate_metrics has returned a report (one of its two dictionaries).
ReportReturned == result.value = "tuple"

\* The number of month-end rows of the table.
Months == Cardinality(MonthEndRows(df))

\* C11: whenever calculate_metrics returns a report, the reported Monthly Max
\* Drawdown is at least the reported Daily Max Drawdown, and neither is above
\* zero, whichever branch set the monthly value.
C11_MonthlyAtLeastDaily ==
    ReportReturned =>
        /\ XLe(result.metrics.DailyMaxDrawdown, result.metrics.MonthlyMaxDrawdown)
        /\ XLe(result.metrics.MonthlyMaxDrawdown, FZero)
        /\ XLe(result.metrics.DailyMaxDrawdown, FZero)

\* The max drawdown of the month-end equity values themselves (99-101).
MonthEndDrawdown == SeqMin(Drawdowns(MonthEndEquity(df)))

\* C12: with three or more months, a report is returned only if the drawdown
\* of the month-end equity is not more negative than the daily max drawdown:
\* it never is, and were it so, calculate_metrics would fail rather than
\* report the daily value in its place.
C12_MonthEndNotWorseOrFailure ==
    (ReportReturned /\ Months > 2) =>
        ~XLt(MonthEndDrawdown, DailyMaxDrawdown(df))

\* The keys of the two reports (187-200, 251-265).
ReportKeys ==
    {"TotalTrades", "TotalReturn", "CAGR", "SharpeRatio", "DailyMaxDrawdown",
     "MonthlyMaxDrawdown", "CalmarRatio", "WinRate", "ProfitFactor", "AvgTrade",
     "AvgWin", "AvgLoss", "Volatility", "TimeActive", "StrategyType"}

\* The report says that its monthly drawdown is an estimate: both reports
\* format the value as a bare percentage, so only a further entry could.
EstimateLabelled == ~(DOMAIN result.metrics \subseteq ReportKeys)

\* C13: with three or more months the reported Monthly Max Drawdown is the
\* minimum of (equity - running max) / running max over the month-end rows,
\* unadjusted; with fewer it is marked in the report as an estimate.
C13_MonthEndValueOrLabelledEstimate ==
    ReportReturned =>
        IF Months > 2
        THEN result.metrics.MonthlyMaxDrawdown = Percent2(MonthEndDrawdown)
        ELSE EstimateLabelled

\* C14: a report's Sharpe Ratio is a number or an explicit sentinel (an
\* infinity of the mean's sign, or N/A), never NaN, in the full report and in
\* the report without trades; in particular when the daily returns have a
\* standard deviation of zero.
C14_SharpeNeverNaN ==
    ReportReturned =>
        /\ result.metrics.SharpeRatio.kind \in {"finite", "inf", "-inf", "N/A"}
        /\ StdKind(DailyReturn(df.EquityCurve)) = "zero" =>
               result.metrics.SharpeRatio.kind \in {"inf", "-inf", "N/A"}

\* calculate_metrics has been called and has come to its end.
CalculateMetricsLeft == pc \in {"main", "done", "raised", "monthly_returns"}

\* C15: when the first and the last date of a table with a signal coincide,
\* calculate_metrics divides by nothing: it returns a report whose CAGR is 0.
C15_ZeroSpanReportsZeroCagr ==
    (CalculateMetricsLeft /\ DaysSpan(df) = 0 /\ ~NoSignals) =>
        /\ result.value # "raised"
        /\ ReportReturned
        /\ result.metrics.CAGR.kind = "zero"

-----------------------------------------------------------------------------
\* C16.  Runs whose closes differ by one part in ThresholdDenominator, so
\* that drawdowns fall on both sides of the threshold: the lag-1 providers of
\* both directions, and a provider that trades short under a name without
\* "short", whose equity moves while calculate_metrics logs no trade.
CalmarNames == StatsNames \cup {"rsi4_period_overbought_strategy"}

NearPrices == ThresholdDenominator - 1 .. ThresholdDenominator + 2

InitCalmar ==
    /\ strategy_name \in CalmarNames
    /\ \E out \in ProviderRuns(strategy_name, CalmarRows, NearPrices, FALSE) :
          AtCalculateMetrics(out)

SpecCalmar == InitCalmar /\ [][NextStats]_vars

\* |Daily Max Drawdown| of the table is below 0.0001.
DrawdownBelowThreshold ==
    XLt(XAbs(DailyMaxDrawdown(df)), Frac(1, ThresholdDenominator))

\* C16: in both reports the Calmar Ratio is the infinity sign when the daily
\* max drawdown is below 0.0001 in absolute value and CAGR is not negative,
\* the negative infinity sign when it is below and CAGR is negative, and
\* CAGR / |drawdown| only when the drawdown is at least 0.0001.
C16_CalmarThreshold ==
    ReportReturned =>
        LET calmar == result.metrics.CalmarRatio
            cagr   == CAGR(df)
        IN  /\ (DrawdownBelowThreshold /\ ~CagrNegative(cagr)) => calmar.kind = "inf"
            /\ (DrawdownBelowThreshold /\ CagrNegative(cagr)) => calmar.kind = "-inf"
            /\ calmar.kind = "ratio" =>
                  /\ ~DrawdownBelowThreshold
                  /\ calmar.cagr = cagr
                  /\ calmar.drawdown = XAbs(DailyMaxDrawdown(df))
            /\ ~DrawdownBelowThreshold => calmar.kind = "ratio"

\* A report without trades whose drawdown is below the threshold and not zero,
\* under a negative CAGR.
C16_Witness ==
    /\ ReportReturned
    /\ result.at = "basic_metrics"
    /\ DrawdownBelowThreshold
    /\ DailyMaxDrawdown(df) # FZero
    /\ result.metrics.CalmarRatio.kind = "-inf"

-----------------------------------------------------------------------------
\* C17.  The days on which the provider's position is open, replayed from the
\* Signal column in the provider's direction.

\* The position is open after row k's signal.
RECURSIVE HeldAfter(_, _)
HeldAfter(name, k) ==
    IF k < 0 THEN FALSE
    ELSE IF df.Signal[k] = EnterSignal(name) THEN TRUE
    ELSE IF df.Signal[k] = ExitSignal(name) THEN FALSE
    ELSE HeldAfter(name, k - 1)

\* Rows on which the position is open at the close, and those rows with the
\* Exit rows that end a position.
HeldDays == {k \in 0 .. n - 1 : HeldAfter(strategy_name, k)}
HeldOrExitDays ==
    {k \in 0 .. n - 1 : HeldAfter(strategy_name, k) \/ HeldAfter(strategy_name, k - 1)}

\* C17: the reported Time Active is the share of days on which the position
\* was open: for a Short provider the replayed days with the Exit day counted,
\* for a Long provider every day from Enter to Exit (with or without the Exit
\* day), not only the Enter bars.
C17_TimeActiveCountsHeldDays ==
    (ReportReturned /\ result.at = "metrics") =>
        IF Direction(strategy_name) = "Short"
        THEN result.metrics.TimeActive = Percent2(Frac(Cardinality(HeldOrExitDays), n))
        ELSE result.metrics.TimeActive \in
                {Percent2(Frac(Cardinality(HeldOrExitDays), n)),
                 Percent2(Frac(Cardinality(HeldDays), n))}

-----------------------------------------------------------------------------
\* Scale-in: the size the position has after row k, in the provider's own
\* measure (units, or tenths of the full size for the 10/20/30/40% ladder).
SizeAfter(d, k) ==
    IF k < 0 THEN 0
    ELSE IF Sizing(strategy_name) = "tps" THEN d.Position[k] ELSE d.Units[k]

\* The rows from `from` to `to` on which the position was opened or added to.
AddRows(d, from, to) ==
    {k \in from .. to : d.Signal[k] = -1 /\ SizeAfter(d, k) > SizeAfter(d, k - 1)}

\* Sum over the rows of the size added times the close it was added at.
RECURSIVE AddedValue(_, _)
AddedValue(d, rows) ==
    IF rows = {} THEN 0
    ELSE LET k == CHOOSE r \in rows : TRUE
         IN  (SizeAfter(d, k) - SizeAfter(d, k - 1)) * d.Close[k]
             + AddedValue(d, rows \ {k})

RECURSIVE AddedSize(_, _)
AddedSize(d, rows) ==
    IF rows = {} THEN 0
    ELSE LET k == CHOOSE r \in rows : TRUE
         IN  (SizeAfter(d, k) - SizeAfter(d, k - 1)) + AddedSize(d, rows \ {k})

\* The weighted-average entry price of the position opened on row `from` and
\* closed on row `to`: what entry' = entry*w_old + close*w_new amounts to after
\* every add.
WeightedAverageEntry(d, from, to) ==
    LET rows == AddRows(d, from, to - 1)
    IN  Frac(AddedValue(d, rows), AddedSize(d, rows))

\* The share of the account the closed position stood for.
ClosedFraction(d, to) ==
    IF Sizing(strategy_name) = "tps" THEN Frac(SizeAfter(d, to - 1), 10) ELSE FOne

ScaleInRun ==
    /\ Sizing(strategy_name) # "single"
    /\ pc \notin {"signal_loop", "equity_init"}

\* C18: a scale-in provider keeps one weighted-average entry price and no
\* list of raw entry prices, and the return it applies when the position
\* closes is the short return from that weighted-average entry price.
C18_WeightedAverageEntryOnClose ==
    ScaleInRun =>
        /\ entry_prices = <<>>
        /\ \A c \in 1 .. Len(closings) :
              closings[c].ret =
                  FMul(ShortReturn(WeightedAverageEntry(df, closings[c].entry_day,
                                                        closings[c].day),
                                   FInt(df.Close[closings[c].day])),
                       ClosedFraction(df, closings[c].day))

-----------------------------------------------------------------------------
\* Compounding: the product of 1 + x[k] over the k of a set, less 1; entries
\* that are NaN do not take part.
RECURSIVE GrowthOver(_, _)
GrowthOver(x, S) ==
    IF S = {} THEN FOne
    ELSE LET k == CHOOSE r \in S : TRUE
         IN  XMul(XAdd(FOne, x[k]), GrowthOver(x, S \ {k}))

Compounded(x, S) == XSub(GrowthOver(x, {k \in S : x[k] # NaN}), FOne)

MonthlyReturnsComputed == pc = "monthly_returns"

\* The months of a year that have rows in the table.
PresentMonths(year) ==
    {month \in 1 .. MonthsPerYear : RowsOfMonth(df, year, month) # {}}

\* The returns of the present months of a year, compounded from a daily column.
MonthsCompounded(daily, year) ==
    [month \in PresentMonths(year) |->
        Compounded(daily, RowsOfMonth(df, year, month))]

\* C19: each monthly return is the product of 1 + daily return over the
\* month's days less 1, and each yearly strategy and benchmark return is the
\* product of 1 + monthly return over the year's present months less 1;
\* absent months are skipped and a year without a usable month yields 0.
C19_MonthlyAndYearlyCompound ==
    MonthlyReturnsComputed =>
        /\ DOMAIN monthly_df = YearsOf(df)
        /\ \A year \in DOMAIN monthly_df :
              LET strat == MonthsCompounded(PctChange(df.EquityCurve), year)
                  bh    == MonthsCompounded(
                               BuyHoldDaily(df, ShortFlag(strategy_name, main_result)),
                               year)
              IN  /\ \A month \in 1 .. MonthsPerYear :
                        monthly_df[year].months[month] =
                            IF month \in PresentMonths(year) THEN strat[month] ELSE NaN
                  /\ monthly_df[year].StratReturns = Compounded(strat, PresentMonths(year))
                  /\ monthly_df[year].bh_returns = Compounded(bh, PresentMonths(year))

\* A year of two months whose strategy returns are both nonzero, so that the
\* compounded yearly return is not their sum.
C19_Witness ==
    /\ MonthlyReturnsComputed
    /\ \E year \in DOMAIN monthly_df :
          /\ \A month \in 1 .. MonthsPerYear :
                /\ IsFinite(monthly_df[year].months[month])
                /\ monthly_df[year].months[month] # FZero
          /\ IsFinite(monthly_df[year].StratReturns)
          /\ monthly_df[year].StratReturns # YearlySum(monthly_df[year].months)

-----------------------------------------------------------------------------
\* main holds the table generate_signals returned and hands it to
\* calculate_metrics, and its caller hands it to calculate_monthly_returns.
TableHandedOver == pc \in {"calculate_metrics", "trade_loop", "main", "done"}

\* C20: calculate_metrics and calculate_monthly_returns leave the table they
\* are given as it was: the same columns with the same values, no
\* Daily_Return, Peak or Drawdown column written in place.
C20_TableLeftAsPassedIn ==
    [][TableHandedOver => df' = df]_vars

-----------------------------------------------------------------------------
\* The row of the table that carries a date.
RowOf(date) == CHOOSE k \in DOMAIN df.Date : df.Date[k] = date

\* A trade of the log as the run's direction defines it: it opens on an Enter
\* day and ends on an Exit day at their closes, and its return in percent is
\* (exit - entry) / entry for Long and (entry - exit) / entry for Short.
TradeOfRun(t) ==
    /\ t.Type = Direction(strategy_name)
    /\ df.Signal[RowOf(t.EntryDate)] = EnterSignal(strategy_name)
    /\ df.Signal[RowOf(t.ExitDate)] = ExitSignal(strategy_name)
    /\ t.EntryPrice = df.Close[RowOf(t.EntryDate)]
    /\ t.ExitPrice = df.Close[RowOf(t.ExitDate)]
    /\ t.ReturnPct = FMul(TradeReturn(Direction(strategy_name),
                                      FInt(t.EntryPrice), FInt(t.ExitPrice)),
                          FInt(100))

\* C21: every trade calculate_metrics records has the return of the run's
\* direction, (exit - entry) / entry for Long and (entry - exit) / entry for
\* Short, between the closes of the Enter and the Exit day.
C21_TradeReturnFollowsDirection ==
    pc \in {"trade_loop", "main", "done"} =>
        \A k \in 1 .. Len(trades) : TradeOfRun(trades[k])

-----------------------------------------------------------------------------
\* The sum of the Return % of the trades of the log whose index is in S.
RECURSIVE ReturnsOf(_)
ReturnsOf(S) ==
    IF S = {} THEN FZero
    ELSE LET k == CHOOSE j \in S : TRUE
         IN  FAdd(result.trades_df[k].ReturnPct, ReturnsOf(S \ {k}))

WinningTrades == {k \in 1 .. Len(result.trades_df) : FLt(FZero, result.trades_df[k].ReturnPct)}
LosingTrades == {k \in 1 .. Len(result.trades_df) : FLt(result.trades_df[k].ReturnPct, FZero)}

FullReportReturned == ReportReturned /\ result.at = "metrics"

\* C22: for a non-empty trade log without a losing trade the reported Profit
\* Factor is +infinity; with a losing trade it is the sum of the positive
\* returns over the absolute sum of the negative ones (printed with two
\* decimals).  It is never NaN.
C22_ProfitFactor ==
    FullReportReturned =>
        /\ Len(result.trades_df) > 0
        /\ result.metrics.ProfitFactor # NaN
        /\ IF LosingTrades = {}
           THEN result.metrics.ProfitFactor = PosInfinity
           ELSE result.metrics.ProfitFactor =
                    Fixed2(FDiv(ReturnsOf(WinningTrades),
                                FSub(FZero, ReturnsOf(LosingTrades))))

\* A log of trades that all returned exactly 0.
C22_Witness ==
    /\ FullReportReturned
    /\ WinningTrades = {}
    /\ LosingTrades = {}
    /\ result.metrics.ProfitFactor = PosInfinity

-----------------------------------------------------------------------------
\* main failed: the prices did not load or the provider did not run.
MainFailed == main_result.branch \in {"get_data", "generate_signals"}

\* The prices loaded and the provider ran, and no trade came of it.
RanWithoutTrades ==
    /\ ~MainFailed
    /\ TotalTradesOf(main_result, result) = 0

\* C23: when main returned None, None, None because the prices did not load
\* or the provider failed, the user is shown 'No data available'; 'No trades
\* were executed' is shown only when the prices loaded and the provider ran
\* without producing trades.
C23_FailureShownApartFromNoTrades ==
    pc = "shown" =>
        /\ MainFailed => shown = "No data available"
        /\ shown = "No trades were executed" => RanWithoutTrades

-----------------------------------------------------------------------------
\* The rows the signal loop has written so far.
SizedRows ==
    IF pc = "signal_loop" THEN FirstIndex(strategy_name) .. i - 1
    ELSE FirstIndex(strategy_name) .. n - 1

\* The steps of the 10/20/30/40% ladder, in tenths.
LadderSteps == {<<0, 1>>, <<1, 3>>, <<3, 6>>, <<6, 10>>}

\* C24: in the unit providers the open unit count is always 0, 1 or 2, and 0
\* exactly when flat; in the TPS provider the position is always one of 0,
\* 0.1, 0.3, 0.6, 1.0, 0 exactly when flat, and changes only by a step of the
\* ladder or by the return to 0 on an Exit.
C24_SizingWithinScheme ==
    \A t \in SizedRows :
        IF Sizing(strategy_name) = "tps"
        THEN /\ df.Position[t] \in {0, 1, 3, 6, 10}
             /\ df.Position[t] = 0 <=> ~HeldAfter(strategy_name, t)
             /\ \/ df.Position[t] = df.Position[t - 1]
                \/ <<df.Position[t - 1], df.Position[t]>> \in LadderSteps
                \/ df.Position[t] = 0 /\ df.Signal[t] = 1
        ELSE /\ df.Units[t] \in {0, 1, 2}
             /\ df.Units[t] = 0 <=> ~HeldAfter(strategy_name, t)

-----------------------------------------------------------------------------
\* The position entered on row e is open after every row from e to x.
OpenSince(e, x) ==
    /\ df.Signal[e] = 1
    /\ \A y \in e + 1 .. x : df.Signal[y] # -1

\* Row x is the time stop or a breakout exit of the position entered on row e.
ExitDue(e, x) == x - e >= time_stop \/ sell_cond[x]

BreakoutWithTimeStop ==
    strategy_name = "open_breakout_ibs_strategy" /\ time_stop >= 1

\* C25: with time_stop = N >= 1 a position entered on bar e is exited on the
\* first bar x > e with x - e >= N or Close > yesterday's High; no position
\* stays open for more than N bars, and every Exit comes after its entry bar.
C25_ExitAtTimeStopOrBreakout ==
    BreakoutWithTimeStop =>
        /\ \A e \in 0 .. i - 1 : \A x \in e + 1 .. i - 1 :
              OpenSince(e, x - 1) =>
                  /\ df.Signal[x] = -1 <=> ExitDue(e, x)
                  /\ x - e <= time_stop
        /\ \A x \in 0 .. i - 1 :
              df.Signal[x] = -1 =>
                  \E e \in 0 .. x - 1 : OpenSince(e, x - 1)

\* A position closed by the time stop alone, after more than one bar.
C25_Witness ==
    /\ BreakoutWithTimeStop
    /\ time_stop >= 2
    /\ \E e \in 0 .. i - 1 :
          /\ e + time_stop < i
          /\ OpenSince(e, e + time_stop - 1)
          /\ df.Signal[e + time_stop] = -1
          /\ ~sell_cond[e + time_stop]

-----------------------------------------------------------------------------
\* The rows of the signal stream that carry a signal.
EmittedRows == {t \in 0 .. n - 1 : df.Signal[t] # 0}

\* C26: in every provider's signal stream the first signal is an Enter, an
\* Exit is emitted only on a day that began with an open position, every
\* signal is one of Enter and Exit, and in the single-unit providers an Enter
\* is emitted only on a day that began flat, so that Enter and Exit alternate.
C26_SignalsWellFormed ==
    \A t \in EmittedRows :
        /\ df.Signal[t] \in {EnterSignal(strategy_name), ExitSignal(strategy_name)}
        /\ (\A u \in 0 .. t - 1 : df.Signal[u] = 0)
              => df.Signal[t] = EnterSignal(strategy_name)
        /\ df.Signal[t] = ExitSignal(strategy_name)
              => HeldAfter(strategy_name, t - 1)
        /\ (Sizing(strategy_name) = "single" /\ df.Signal[t] = EnterSignal(strategy_name))
              => ~HeldAfter(strategy_name, t - 1)

\* A single-unit stream of Enter, Exit, Enter.
C26_Witness ==
    /\ Sizing(strategy_name) = "single"
    /\ LoopKind(strategy_name) = "same"
    /\ \E t \in EmittedRows, u \in EmittedRows, v \in EmittedRows :
          /\ t < u /\ u < v
          /\ df.Signal[t] = -1 /\ df.Signal[u] = 1 /\ df.Signal[v] = -1

-----------------------------------------------------------------------------
\* The equity curve the lag-1 short loop (short_smh_bundle3_strategy3) draws
\* for the closes and the signal stream of the table.
LagCurve ==
    EquityLoopFrom("short_smh_bundle3_strategy3",
                   [df |-> [df EXCEPT !.EquityCurve = [k \in DOMAIN df.Close |-> FOne]],
                    e  |-> EquityLocals("short_smh_bundle3_strategy3")],
                   1).df.EquityCurve

SameBarRunDone == strategy_name = "short_rsi2_above_90_strategy" /\ EquityDone

\* C27: for the closes and the alternating Short stream of a same-bar
\* single-unit run (no signal on day 0), the same-bar curve on day t is the
\* lag-1 curve on day t + 1, for every day t before the last.
C27_SameBarIsLagShifted ==
    SameBarRunDone =>
        \A t \in 0 .. n - 2 : df.EquityCurve[t] = LagCurve[t + 1]

\* A run whose cover moved equity before the last day.
C27_Witness ==
    /\ SameBarRunDone
    /\ \E c \in 1 .. Len(closings) :
          /\ closings[c].day < n - 1
          /\ closings[c].ret # FZero
          /\ df.EquityCurve[closings[c].day] # FOne

-----------------------------------------------------------------------------
\* C28: with strictly positive closes every value of the equity curve is
\* strictly positive on every day of every run, Long or Short, so the running
\* peak is positive and every drawdown lies in [-1, 0].
C28_EquityStrictlyPositive ==
    EquityDone =>
        \A k \in DOMAIN df.EquityCurve :
            /\ FLt(FZero, df.EquityCurve[k])
            /\ FLt(FZero, PeakColumn(df.EquityCurve)[k])
            /\ LET drawdown == DrawdownColumn(df.EquityCurve)[k]
               IN  IsFinite(drawdown) /\ FLe(FInt(-1), drawdown) /\ FLe(drawdown, FZero)

-----------------------------------------------------------------------------
\* The last trading day of a year, and the day its return is measured from:
\* the last trading day before the year, the first day for the first year.
LastRowOfYear(year) ==
    CHOOSE k \in DOMAIN df.Date :
        /\ Year(df.Date[k]) = year
        /\ \A j \in DOMAIN df.Date : Year(df.Date[j]) = year => j <= k
BaseRowOfYear(year) ==
    LET before == {k \in DOMAIN df.Date : Year(df.Date[k]) < year}
    IN  IF before = {} THEN 0
        ELSE CHOOSE k \in before : \A j \in before : j <= k

YearlyStratReturns == [year \in DOMAIN monthly_df |-> monthly_df[year].StratReturns]

\* C29: the yearly strategy return of year y is equity on y's last trading
\* day over equity on the last trading day before y, less 1, so the product
\* over all years of 1 + yearly return is equity[last] / equity[first], which
\* is 1 + the total return of calculate_metrics.
C29_YearlyReturnsTelescope ==
    MonthlyReturnsComputed =>
        /\ \A year \in DOMAIN monthly_df :
              monthly_df[year].StratReturns =
                  XSub(XDiv(df.EquityCurve[LastRowOfYear(year)],
                            df.EquityCurve[BaseRowOfYear(year)]), FOne)
        /\ GrowthOver(YearlyStratReturns, DOMAIN monthly_df) =
              XDiv(df.EquityCurve[n - 1], df.EquityCurve[0])
        /\ GrowthOver(YearlyStratReturns, DOMAIN monthly_df) =
              FAdd(FOne, TotalReturn(df.EquityCurve, n))

-----------------------------------------------------------------------------
\* The equity loop of the 10/20/30/40% ladder stands before row i with a
\* position open; the rows on which the position was opened and added to.
TpsPositionOpen ==
    /\ strategy_name = "tps_short_strategy"
    /\ pc = "equity_loop"
    /\ in_position
AddsSoFar == AddRows(df, open_day, i - 1)

\* C30: after any sequence of adds of the ladder the incrementally maintained
\* entry price is the size-weighted mean of the closes the adds were made at;
\* it lies between the lowest and the highest of them, every add is made at a
\* close above the add before it, and the entry price never decreases while
\* the position is open.
C30_EntryPriceIsWeightedMean ==
    /\ [](TpsPositionOpen =>
            /\ entry_price = Frac(AddedValue(df, AddsSoFar), AddedSize(df, AddsSoFar))
            /\ AddedSize(df, AddsSoFar) = position_size
            /\ \E lo, hi \in AddsSoFar :
                  /\ \A k \in AddsSoFar : df.Close[lo] <= df.Close[k] /\ df.Close[k] <= df.Close[hi]
                  /\ FLe(FInt(df.Close[lo]), entry_price)
                  /\ FLe(entry_price, FInt(df.Close[hi]))
            /\ \A j, k \in AddsSoFar : j < k => df.Close[j] < df.Close[k])
    /\ [][TpsPositionOpen /\ TpsPositionOpen' => FLe(entry_price, entry_price')]_vars

\* The whole ladder was walked: four adds at four closes.
C30_Witness ==
    /\ TpsPositionOpen
    /\ Cardinality(AddsSoFar) = 4
    /\ position_size = 10
    /\ \E lo, hi \in AddsSoFar :
          /\ FLt(FInt(df.Close[lo]), entry_price)
          /\ FLt(entry_price, FInt(df.Close[hi]))

====
